---- MODULE Spec2Model ----
(***************************************************************************)
(* Tinyfy (Nova extension), Scripts/main.js: activation probes, the save    *)
(* dispatcher handleSave, the two pipelines minifyJS (stream mode) and      *)
(* minifyCSS (file-path mode), the process runner runMinifier and the       *)
(* formatter formatBytes; with them the host's side of the program: the     *)
(* workspace's editors and their save subscriptions, the output files, and  *)
(* the diagnostic extraction and jumpToError that README.md lists for the   *)
(* catch blocks.                                                            *)
(*                                                                          *)
(* Representation of text.  A path or a configured suffix is a sequence of  *)
(* one-character strings, so that String.endsWith and the anchored          *)
(* String.replace of the source are computed character by character.  File  *)
(* content, child output and messages are sequences of tokens, each token   *)
(* an opaque run of characters of known length (TokLen); concatenation is   *)
(* exact on tokens.  Configured suffixes contain no `$`, so the replacement *)
(* string of String.replace is inserted literally.                          *)
(***************************************************************************)
EXTENDS Integers, Sequences, FiniteSets, TLC

VARIABLES
    config,         \* the host's configuration store (nova.config)
    installed,      \* environment: which tools the machine really has
    dependencies,   \* main.js:2-6, the module-level availability flags
    actPc,          \* position of exports.activate
    actNotes,       \* notifications issued by exports.activate
    probe,          \* the checkCommand in flight: its child's stdout and `output`
    checks,         \* npmCheck, terserCheck, lightningCheck: what each probe resolved with
    probed,         \* the tools a probe's process.start() was called for, in order
    extraction,     \* an error message and the diagnostic extracted from it
    jump,           \* a document, a line and column, and the selection jumpToError sets
    files,          \* the output files the jobs at hand have left on disk: path -> content
    editors,        \* the workspace's text editors and their onDidSave subscriptions
    job             \* per save event: the locals of handleSave/minifyJS/minifyCSS/runMinifier

vars == <<config, installed, dependencies, actPc, actNotes, job, probe, checks, extraction, files, editors, probed, jump>>

----------------------------------------------------------------------------
\* Bounds of the model.

\* Characters of a document that jumpToError is given.
MaxDoc == 4

\* Job slots (save events whose jobs may be in flight together).
MaxJobs == 2
\* Chunks one child emits, on stdout and stderr together.
MaxChunks == 2
\* Saves of one editor's document that are counted.
MaxSaves == 2

Jobs == 1..MaxJobs

----------------------------------------------------------------------------
\* Text helpers.

EndsWith(s, suf) ==
    /\ Len(suf) <= Len(s)
    /\ SubSeq(s, Len(s) - Len(suf) + 1, Len(s)) = suf

DropLast(s, n) == SubSeq(s, 1, Len(s) - n)

RECURSIVE LastSlash(_, _)
LastSlash(s, i) ==
    IF i = 0 THEN 0
    ELSE IF s[i] = "/" THEN i
    ELSE LastSlash(s, i - 1)

\* nova.path.basename: the part after the last "/".
Basename(p) == SubSeq(p, LastSlash(p, Len(p)) + 1, Len(p))

\* Length in characters of one token of content/output.
TokLen(t) ==
    CASE t = "src1000" -> 1000
      [] t = "src24"   -> 24
      [] t = "min400"  -> 400
      [] t = "min24"   -> 24
      [] OTHER         -> 1

RECURSIVE TextLen(_)
TextLen(s) == IF s = <<>> THEN 0 ELSE TokLen(Head(s)) + TextLen(Tail(s))

IsSpace(t) == t \in {" ", "\n"}

RECURSIVE TrimStart(_)
TrimStart(s) ==
    IF s = <<>> THEN <<>>
    ELSE IF IsSpace(Head(s)) THEN TrimStart(Tail(s))
    ELSE s

RECURSIVE TrimEnd(_)
TrimEnd(s) ==
    IF s = <<>> THEN <<>>
    ELSE IF IsSpace(s[Len(s)]) THEN TrimEnd(DropLast(s, 1))
    ELSE s

\* String.prototype.trim on token text.
Trim(s) == TrimEnd(TrimStart(s))

----------------------------------------------------------------------------
\* The universe the environment draws from.

JsExt   == <<".", "j", "s">>
CssExt  == <<".", "c", "s", "s">>
ScssExt == <<".", "s", "c", "s", "s">>
LessExt == <<".", "l", "e", "s", "s">>
MinJs   == <<".", "m", "i", "n">> \o JsExt
MinCss  == <<".", "m", "i", "n">> \o CssExt
CustomJs  == <<"-", "m">> \o JsExt
CustomCss == <<"-", "m">> \o CssExt

Stem == <<"/", "a">>

\* editor.document.path; <<>> is the absent path of an unsaved buffer.
Paths ==
    { <<>>,
      Stem \o JsExt, Stem \o MinJs, Stem \o CustomJs,
      Stem \o CssExt, Stem \o MinCss, Stem \o CustomCss,
      Stem \o LessExt, Stem \o <<".", "t", "x", "t">> }

\* editor.document.syntax
Syntaxes == {"javascript", "css", "scss", "less", "html"}

\* A boolean setting: unset (null), true or false.
Tri == {"null", "true", "false"}

\* terser.outputSuffix / lightningcss.outputSuffix; <<>> is unset or empty.
JsSuffixes  == {<<>>, CustomJs}
CssSuffixes == {<<>>, CustomCss}

Configs ==
    [terserEnabled : Tri, lightningEnabled : Tri,
     terserSuffix : JsSuffixes, lightningSuffix : CssSuffixes]

Tools == {"npm", "terser", "lightningcss"}

\* What nova.fs.stat can do: return a FileStats, return undefined or null,
\* or throw.
StatKinds == {"stats", "undefined", "null", "throws"}
NoStat == [kind |-> "none", size |-> 0]
StatFailures == {[kind |-> k, size |-> 0] : k \in {"undefined", "throws"}}
\* nova.fs.stat(inputPath) at main.js:286 and nova.fs.stat(outputPath) at 317.
InputStats  == {[kind |-> "stats", size |-> s] : s \in {0, 1000, 4096}} \cup StatFailures
OutputStats == {[kind |-> "stats", size |-> s] : s \in {400, 4096}} \cup StatFailures

\* What reading the input file can give: content (possibly empty) or a throw.
Contents == {<<>>, <<"src1000">>, <<"src24">>}
NoRead == [kind |-> "none", content |-> <<>>]
ReadResults ==
    {[kind |-> "ok", content |-> c] : c \in Contents}
    \cup {[kind |-> "throws", content |-> <<>>]}

\* What process.start() can do.
SpawnResults == {"started", "throws"}

OutChunks == {"min400", "min24"}
\* "parseError" stands for the text `Parse error at 0:114,5` (TokChars).
ErrChunks == {"err", "\n", "parseError"}
ExitStatuses == {0, 1}

\* error.message of exceptions raised by the host rather than by main.js.
HostError(what) == <<"host: ", what>>

\* Host calls of the dispatch that may throw: the read of a family's enabled
\* setting (main.js:160, 176), the read of its suffix setting (main.js:210,
\* 277) and the first call of showNotification (main.js:111-123).
HostFaults == {"none", "enabledRead", "suffixRead", "notify"}

----------------------------------------------------------------------------
\* Notifications (main.js:110-125, showNotification).

Note(id, title, body, url) ==
    [id |-> id, title |-> title, body |-> body, url |-> url]


\* main.js:16-21, 35-40, 54-59: the three activation notifications.
NpmNotFound ==
    Note("dependency-error", "NPM Not Found",
         <<"Node.js and NPM are required. Please install them to use this extension.">>,
         "https://nodejs.org/")
TerserNotFound ==
    Note("dependency-error", "Terser Not Found",
         <<"Terser could not be found. Install it with: npm install -g terser">>,
         "https://www.npmjs.com/package/terser")
LightningNotFound ==
    Note("dependency-error", "Lightning CSS Not Found",
         <<"Lightning CSS could not be found. Install it with: npm install -g lightningcss-cli">>,
         "https://www.npmjs.com/package/lightningcss-cli")

\* main.js:149-153
RemoteNote(filePath) ==
    Note("remote-file-unsupported", "Minification Skipped",
         <<"Cannot process remote file: ">> \o Basename(filePath)
             \o <<".\nOnly local files are supported.">>,
         "")

\* main.js:200-205
TerserNotInstalled ==
    Note("tool-not-installed", "Terser Not Installed",
         <<"Cannot minify JavaScript. Please install Terser: npm install -g terser">>,
         "https://www.npmjs.com/package/terser")

\* main.js:267-272
LightningNotInstalled ==
    Note("tool-not-installed", "Lightning CSS Not Installed",
         <<"Cannot minify CSS. Please install Lightning CSS: npm install -g lightningcss-cli">>,
         "https://www.npmjs.com/package/lightningcss-cli")

\* main.js:192, the catch block of handleSave.
UnexpectedNote(what) ==
    Note("minify-error", "Minification Error",
         <<"Unexpected error: ">> \o HostError(what), "")

\* main.js:254-258, the catch block of minifyJS.
JsFailedNote(message) ==
    Note("minify-error", "Terser: Minification Failed", message, "")

\* main.js:329-333, the catch block of minifyCSS.
CssFailedNote(message) ==
    Note("minify-error", "Lightning CSS: Minification Failed", message, "")

----------------------------------------------------------------------------
\* Pure functions of main.js.

formatBytesAlwaysKB(bytes) ==
    IF bytes = 0 THEN "0 Bytes"
    ELSE LET tenths == (20 * bytes + 1024) \div 2048
         IN  ToString(tenths \div 10) \o "." \o ToString(tenths % 10) \o " KB"

\* main.js:76-81.  toFixed(1) of bytes/1024 (exact in binary) rounds to the
\* nearest tenth, ties upward; it is only reached for bytes >= 1024.
formatBytes(bytes) ==
    IF bytes = 0 THEN "0 Bytes"
    ELSE IF bytes < 1024 THEN ToString(bytes) \o " B"
    ELSE LET tenths == (20 * bytes + 1024) \div 2048
         IN  ToString(tenths \div 10) \o "." \o ToString(tenths % 10) \o " KB"

\* The clock difference Date.now() - startTime is not modelled.
Duration == "<duration>"

\* main.js:249 and 324, the body of the success notification.
SuccessBody(outputPath, savedAmount) ==
    Basename(outputPath)
        \o <<" processed in ", Duration, "ms (saved ", formatBytes(savedAmount), ")">>

\* main.js:246-250
JsSuccessNote(outputPath, savedAmount) ==
    Note("minify-success", "Terser: Minified Successfully",
         SuccessBody(outputPath, savedAmount), "")

\* main.js:321-325
CssSuccessNote(outputPath, savedAmount) ==
    Note("minify-success", "Lightning CSS: Minified Successfully",
         SuccessBody(outputPath, savedAmount), "")

\* `value ?? true` on a boolean setting.
OrTrue(v) == IF v = "null" THEN TRUE ELSE v = "true"

TerserEnabledIgnored(cfg) == TRUE

\* main.js:29 and 160
TerserEnabled(cfg) == OrTrue(cfg.terserEnabled)

\* main.js:48 and 176
LightningEnabled(cfg) == OrTrue(cfg.lightningEnabled)

\* main.js:210, `nova.config.get("terser.outputSuffix", "string") || ".min.js"`
JsSuffix(cfg) == IF cfg.terserSuffix = <<>> THEN MinJs ELSE cfg.terserSuffix

CssSuffixAlwaysDefault(cfg) == MinCss

\* main.js:277
CssSuffix(cfg) == IF cfg.lightningSuffix = <<>> THEN MinCss ELSE cfg.lightningSuffix

OutputPathJSAppends(inputPath, suffix) ==
    IF EndsWith(inputPath, JsExt)
    THEN DropLast(inputPath, Len(JsExt)) \o suffix
    ELSE inputPath \o suffix

\* main.js:211, inputPath.replace(/\.js$/, suffix)
OutputPathJS(inputPath, suffix) ==
    IF EndsWith(inputPath, JsExt)
    THEN DropLast(inputPath, Len(JsExt)) \o suffix
    ELSE inputPath

\* main.js:278, inputPath.replace(/\.(css|scss|less)$/, suffix)
OutputPathCSS(inputPath, suffix) ==
    IF EndsWith(inputPath, CssExt)
    THEN DropLast(inputPath, Len(CssExt)) \o suffix
    ELSE IF EndsWith(inputPath, ScssExt)
    THEN DropLast(inputPath, Len(ScssExt)) \o suffix
    ELSE IF EndsWith(inputPath, LessExt)
    THEN DropLast(inputPath, Len(LessExt)) \o suffix
    ELSE inputPath

SamePathNeverAborts(inputPath, outputPath) == FALSE

\* main.js:213 and 280, `if (inputPath === outputPath)`
SamePath(inputPath, outputPath) == inputPath = outputPath

\* main.js:167
AlreadyMinifiedJS(filePath) == EndsWith(filePath, MinJs)

\* main.js:183
AlreadyMinifiedCSS(filePath) == EndsWith(filePath, MinCss)

isRemoteFileUndefinedOnly(statKind) == statKind = "undefined"

CssFamilyAnyOther(syntax) == TRUE

\* main.js:175, `syntax === "css" || syntax === "scss" || syntax === "less"`
CssFamily(syntax) == syntax \in {"css", "scss", "less"}

\* main.js:128-135
isRemoteFile(statKind) == statKind \in {"undefined", "null", "throws"}

TerserAssumedInstalled(deps) == FALSE

\* main.js:199, `if (!dependencies.terser)`
TerserMissing(deps) == ~deps.terser

LightningAssumedInstalled(deps) == FALSE

\* main.js:266, `if (!dependencies.lightningcss)`
LightningMissing(deps) == ~deps.lightningcss

\* main.js:308 and 372, `stderrOutput.trim() || "Process exited with status N"`
ExitErrorMsg(status, stderrOutput) ==
    IF Trim(stderrOutput) = <<>>
    THEN <<"Process exited with status ", ToString(status)>>
    ELSE Trim(stderrOutput)

runMinifierExitByOutput(status, stdoutOutput, stderrOutput, toolName) ==
    IF stdoutOutput # <<>>
    THEN [kind |-> "resolve", value |-> stdoutOutput, message |-> <<>>]
    ELSE [kind |-> "reject", value |-> <<>>,
          message |-> ExitErrorMsg(status, stderrOutput)]

\* main.js:364-375, the onDidExit callback of runMinifier.
runMinifierExit(status, stdoutOutput, stderrOutput, toolName) ==
    IF status = 0
    THEN IF stdoutOutput = <<>>
         THEN [kind |-> "reject", value |-> <<>>,
               message |-> <<toolName, " produced no output">>]
         ELSE [kind |-> "resolve", value |-> stdoutOutput, message |-> <<>>]
    ELSE [kind |-> "reject", value |-> <<>>,
          message |-> ExitErrorMsg(status, stderrOutput)]

\* main.js:304-311, the onDidExit callback inside minifyCSS.
cssExit(status, stderrOutput) ==
    IF status = 0
    THEN [kind |-> "resolve", value |-> <<>>, message |-> <<>>]
    ELSE [kind |-> "reject", value |-> <<>>,
          message |-> ExitErrorMsg(status, stderrOutput)]


----------------------------------------------------------------------------
\* Diagnostic extraction, as written in the catch blocks of the listing of
\* minifyJS and minifyCSS in README.md (main.js has no such code).  A message
\* is a sequence of characters; each regular expression is matched as the
\* engine matches it: leftmost start, greedy runs.

UpperAlpha == <<"A", "B", "C", "D", "E", "F", "G", "H", "I", "J", "K", "L", "M", "N", "O", "P", "Q", "R", "S", "T", "U", "V", "W", "X", "Y", "Z">>
LowerAlpha == <<"a", "b", "c", "d", "e", "f", "g", "h", "i", "j", "k", "l", "m", "n", "o", "p", "q", "r", "s", "t", "u", "v", "w", "x", "y", "z">>
DigitChars == {"0", "1", "2", "3", "4", "5", "6", "7", "8", "9"}
\* \s
SpaceChars == {" ", "\n", "\t"}
\* \w
WordChars ==
    {UpperAlpha[i] : i \in 1..26} \cup {LowerAlpha[i] : i \in 1..26}
        \cup DigitChars \cup {"_"}

\* Case folding of the /i flag.
Lower(c) ==
    IF \E i \in 1..26 : UpperAlpha[i] = c
    THEN LowerAlpha[CHOOSE i \in 1..26 : UpperAlpha[i] = c]
    ELSE c

\* The literal lit matches at position i, case-insensitively.
LitAt(text, i, lit) ==
    /\ i >= 1
    /\ i + Len(lit) - 1 <= Len(text)
    /\ \A k \in 1..Len(lit) : Lower(text[i + k - 1]) = Lower(lit[k])

\* The position after the longest run of characters of S that starts at i.
SkipIn(text, i, S) ==
    CHOOSE k \in i..(Len(text) + 1) :
        /\ \A m \in i..(k - 1) : text[m] \in S
        /\ (k = Len(text) + 1 \/ text[k] \notin S)

\* The position after the longest run of characters outside S that starts at i.
SkipNotIn(text, i, S) ==
    CHOOSE k \in i..(Len(text) + 1) :
        /\ \A m \in i..(k - 1) : text[m] \notin S
        /\ (k = Len(text) + 1 \/ text[k] \in S)

DigitVal(c) == CHOOSE d \in 0..9 : ToString(d) = c

\* The number a run of decimal digits denotes.
RECURSIVE DigitsValue(_)
DigitsValue(ds) ==
    IF ds = <<>> THEN 0
    ELSE 10 * DigitsValue(SubSeq(ds, 1, Len(ds) - 1)) + DigitVal(ds[Len(ds)])

parseIntOneBased(ds) == DigitsValue(ds) - 1

\* README.md:688, 776: parseInt(digits, 10) of a captured group, unadjusted.
parseInt(ds) == DigitsValue(ds)

NoMatch == [found |-> FALSE, g1 |-> <<>>, g2 |-> <<>>]

ParseErrorLit == <<"P", "a", "r", "s", "e", " ", "e", "r", "r", "o", "r", " ", "a", "t", " ">>
LineLit == <<"l", "i", "n", "e", ":">>
ColumnLit == <<"c", "o", "l", "u", "m", "n", ":">>
KindLit == <<"k", "i", "n", "d", ":">>

\* /Parse error at [^:]+:(\d+),(\d+)/i tried at position i.
ParseErrorAt(text, i) ==
    LET a == i + Len(ParseErrorLit)
        b == SkipNotIn(text, a, {":"})
        c == SkipIn(text, b + 1, DigitChars)
        d == SkipIn(text, c + 1, DigitChars)
    IN  IF /\ LitAt(text, i, ParseErrorLit)
           /\ b > a /\ b <= Len(text)
           /\ c > b + 1 /\ c <= Len(text) /\ text[c] = ","
           /\ d > c + 1
        THEN [found |-> TRUE, g1 |-> SubSeq(text, b + 1, c - 1),
              g2 |-> SubSeq(text, c + 1, d - 1)]
        ELSE NoMatch

\* /line:\s*(\d+),\s*column:\s*(\d+)/i tried at position i.
ErrorLocationAt(text, i) ==
    LET a == i + Len(LineLit)
        b == SkipIn(text, a, SpaceChars)
        c == SkipIn(text, b, DigitChars)
        d == SkipIn(text, c + 1, SpaceChars)
        e == d + Len(ColumnLit)
        f == SkipIn(text, e, SpaceChars)
        g == SkipIn(text, f, DigitChars)
    IN  IF /\ LitAt(text, i, LineLit)
           /\ c > b /\ c <= Len(text) /\ text[c] = ","
           /\ LitAt(text, d, ColumnLit)
           /\ g > f
        THEN [found |-> TRUE, g1 |-> SubSeq(text, b, c - 1),
              g2 |-> SubSeq(text, f, g - 1)]
        ELSE NoMatch

\* /kind:\s*(\w+)\(/i tried at position i.
ErrorKindAt(text, i) ==
    LET a == i + Len(KindLit)
        b == SkipIn(text, a, SpaceChars)
        c == SkipIn(text, b, WordChars)
    IN  IF /\ LitAt(text, i, KindLit)
           /\ c > b /\ c <= Len(text) /\ text[c] = "("
        THEN [found |-> TRUE, g1 |-> SubSeq(text, b, c - 1), g2 |-> <<>>]
        ELSE NoMatch

\* README.md:685, error.message.match(/Parse error at [^:]+:(\d+),(\d+)/i)
parseErrorMatch(message) ==
    IF \E i \in 1..Len(message) : ParseErrorAt(message, i).found
    THEN ParseErrorAt(message,
             CHOOSE i \in 1..Len(message) :
                 /\ ParseErrorAt(message, i).found
                 /\ \A m \in 1..(i - 1) : ~ParseErrorAt(message, m).found)
    ELSE NoMatch

\* README.md:773, error.message.match(/line:\s*(\d+),\s*column:\s*(\d+)/i)
errorLocationMatch(message) ==
    IF \E i \in 1..Len(message) : ErrorLocationAt(message, i).found
    THEN ErrorLocationAt(message,
             CHOOSE i \in 1..Len(message) :
                 /\ ErrorLocationAt(message, i).found
                 /\ \A m \in 1..(i - 1) : ~ErrorLocationAt(message, m).found)
    ELSE NoMatch

\* README.md:783, error.message.match(/kind:\s*(\w+)\(/i)
errorKindMatch(message) ==
    IF \E i \in 1..Len(message) : ErrorKindAt(message, i).found
    THEN ErrorKindAt(message,
             CHOOSE i \in 1..Len(message) :
                 /\ ErrorKindAt(message, i).found
                 /\ \A m \in 1..(i - 1) : ~ErrorKindAt(message, m).found)
    ELSE NoMatch

\* The result of an extraction: no diagnostic, or line, column and kind
\* (kind <<>> when the message has no kind fragment).
NoDiagnostic == [located |-> FALSE, line |-> 0, column |-> 0, kind |-> <<>>]

\* README.md:685-689, the catch block of minifyJS.
extractJS(message) ==
    LET m == parseErrorMatch(message) IN
    IF m.found
    THEN [located |-> TRUE, line |-> parseInt(m.g1), column |-> parseInt(m.g2),
          kind |-> <<>>]
    ELSE NoDiagnostic

\* README.md:773-784, the catch block of minifyCSS.
extractCSS(message) ==
    LET m == errorLocationMatch(message)
        k == errorKindMatch(message)
    IN
    IF m.found
    THEN [located |-> TRUE, line |-> parseInt(m.g1), column |-> parseInt(m.g2),
          kind |-> IF k.found THEN k.g1 ELSE <<>>]
    ELSE NoDiagnostic

\* The strategy is selected by the tool family.
extract(rawErrorText, toolKind) ==
    IF toolKind = "js" THEN extractJS(rawErrorText) ELSE extractCSS(rawErrorText)

\* Error messages: a fragment of a tool's error text, between other text.
TerserParseError    == <<"P", "a", "r", "s", "e", " ", "e", "r", "r", "o", "r", " ", "a", "t", " ", "0", ":", "1", "1", "4", ",", "5">>
TerserParseErrorIn  == <<"P", "a", "r", "s", "e", " ", "e", "r", "r", "o", "r", " ", "a", "t", " ", "a", ".", "j", "s", ":", "3", ",", "1", "0">>
TerserNoColumn      == <<"P", "a", "r", "s", "e", " ", "e", "r", "r", "o", "r", " ", "a", "t", " ", "0", ":", "1", "1", "4">>
TerserOtherError    == <<"U", "n", "e", "x", "p", "e", "c", "t", "e", "d", " ", "t", "o", "k", "e", "n">>
LightningLocation   == <<"l", "i", "n", "e", ":", " ", "3", "0", "4", ",", " ", "c", "o", "l", "u", "m", "n", ":", " ", "2">>
LightningKindFirst  == <<"k", "i", "n", "d", ":", " ", "I", "n", "v", "a", "l", "i", "d", "S", "e", "l", "e", "c", "t", "o", "r", "(", "x", ")", ",", " ", "l", "i", "n", "e", ":", " ", "3", "0", "4", ",", " ", "c", "o", "l", "u", "m", "n", ":", " ", "2">>
LightningKindBare   == <<"l", "i", "n", "e", ":", " ", "7", ",", " ", "c", "o", "l", "u", "m", "n", ":", " ", "1", "2", ",", " ", "k", "i", "n", "d", ":", " ", "B", "a", "d">>
LightningNoColumn   == <<"l", "i", "n", "e", ":", " ", "3", "0", "4">>
LightningKindOnly   == <<"k", "i", "n", "d", ":", " ", "I", "n", "v", "a", "l", "i", "d", "S", "e", "l", "e", "c", "t", "o", "r", "(">>

Fragments ==
    {TerserParseError, TerserParseErrorIn, TerserNoColumn, TerserOtherError,
     LightningLocation, LightningKindFirst, LightningKindBare,
     LightningNoColumn, LightningKindOnly}

TextBefore == {<<>>, <<"E", "R", "R", "O", "R", ":", " ">>, <<"x", " ", "{", "\n">>}
TextAfter  == {<<>>, <<" ", "}">>, <<"\n", "a", "t", " ", "y">>}

\* The characters of a token of error text.
TokChars(t) == IF t = "parseError" THEN TerserParseError ELSE <<t>>

RECURSIVE TextChars(_)
TextChars(s) == IF s = <<>> THEN <<>> ELSE TokChars(Head(s)) \o TextChars(Tail(s))

NoExtraction ==
    [tool |-> "", before |-> <<>>, fragment |-> <<>>, after |-> <<>>,
     done |-> FALSE, result |-> NoDiagnostic]

\* error.message of the extraction.
Message(e) == e.before \o e.fragment \o e.after

----------------------------------------------------------------------------
\* jumpToError, as listed in README.md (main.js has no such function).  A
\* document is a sequence of characters.

Min(a, b) == IF a <= b THEN a ELSE b

\* The position of the first "\n" of text at or after i; Len(text) + 1 when
\* there is none.
RECURSIVE NextNewline(_, _)
NextNewline(text, i) ==
    IF i > Len(text) THEN Len(text) + 1
    ELSE IF text[i] = "\n" THEN i
    ELSE NextNewline(text, i + 1)

\* String.prototype.split('\n')
RECURSIVE Split(_)
Split(text) ==
    LET i == NextNewline(text, 1) IN
    IF i > Len(text) THEN <<text>>
    ELSE <<SubSeq(text, 1, i - 1)>> \o Split(SubSeq(text, i + 1, Len(text)))

\* README.md:853-855: the loop `position += lines[i].length + 1` for i < n.
RECURSIVE PositionOfLine(_, _)
PositionOfLine(lines, n) ==
    IF n = 0 THEN 0
    ELSE PositionOfLine(lines, n - 1) + Len(lines[n]) + 1

jumpToErrorUnclamped(document, line, column) ==
    PositionOfLine(Split(document), Min(line, Len(Split(document)))) + column

\* README.md:847-864: the position jumpToError gives editor.selectedRange.
jumpToError(document, line, column) ==
    LET lines    == Split(document)
        position == PositionOfLine(lines, Min(line, Len(lines))) + column
    IN  Min(position, Len(document))

DocChars == {"a", "\n"}
Documents == UNION {[1..n -> DocChars] : n \in 0..MaxDoc}
\* Lines and columns are what parseInt gives for a run of digits.
Positions == 0..(MaxDoc + 1)

NoJump == [document |-> <<>>, line |-> 0, column |-> 0, done |-> FALSE,
           selectedRange |-> 0]

----------------------------------------------------------------------------
\* One save event's job: the locals of handleSave, minifyJS/minifyCSS and the
\* Process closure, plus a record of the host calls it made.

NoArgs == [tool |-> "", input |-> <<>>, output |-> <<>>]

IdleJob ==
    [pc           |-> "idle",     \* idle | running (awaiting the child) | done
     outcome      |-> "none",     \* the return point or catch the job ended at
     family       |-> "none",     \* js (minifyJS) | css (minifyCSS)
     syntax       |-> "",
     path         |-> <<>>,
     cfg          |-> [terserEnabled |-> "null", lightningEnabled |-> "null",
                       terserSuffix |-> <<>>, lightningSuffix |-> <<>>],
     remoteStat   |-> "none",     \* what nova.fs.stat did inside isRemoteFile
     suffix       |-> <<>>,
     outputPath   |-> <<>>,
     read         |-> "none",     \* whether the input file was opened and read
     content      |-> <<>>,
     sizeStat     |-> NoStat,     \* nova.fs.stat(inputPath), main.js:286
     outStat      |-> NoStat,     \* nova.fs.stat(outputPath), main.js:317
     originalSize |-> 0,
     savedAmount  |-> 0,
     spawns       |-> 0,          \* calls of process.start()
     args         |-> NoArgs,     \* the child's command line
     stdin        |-> <<>>,       \* what was written to the child's stdin
     stdinClosed  |-> FALSE,
     stdoutOutput |-> <<>>,
     stderrOutput |-> <<>>,
     late         |-> 0,          \* stdout chunks delivered after the exit callback
     status       |-> -1,
     run          |-> "none",     \* the run's promise: pending | resolved | rejected
     opened       |-> <<>>,       \* paths the pipeline opened for writing
     written      |-> <<>>,       \* what the pipeline wrote, in order
     toolWrote    |-> <<>>,       \* paths the child itself wrote (-o)
     saveNo       |-> 0,          \* the save's rank among the jobs at hand
     writeNo      |-> 0,          \* the rank of the job's opening of its output file
     selectedRange |-> "unchanged", \* editor.selectedRange, which main.js never assigns
     raised       |-> "",         \* the host call that threw during the dispatch
     escaped      |-> "none",     \* unhandledRejection: a rejected promise nobody handles
     notes        |-> <<>>]       \* notifications issued for this save

End(r, outcome) == [r EXCEPT !.pc = "done", !.outcome = outcome]

NotifyTwice(r, n) == [r EXCEPT !.notes = Append(Append(@, n), n)]

\* showNotification called by the job.
Notify(r, n) == [r EXCEPT !.notes = Append(@, n)]

\* main.js:190-193: an exception raised inside the try of handleSave is
\* caught and reported.
Caught(r, what) ==
    End(Notify([r EXCEPT !.raised = what], UnexpectedNote(what)), "unexpected")

\* main.js:172, 188: minifyJS and minifyCSS are async and handleSave drops
\* the promise they return, so an exception raised in them outside their own
\* try, or inside their catch, rejects a promise nobody handles.
Rejected(r, what) ==
    End([r EXCEPT !.raised = what, !.escaped = "unhandledRejection"], "escaped")

\* showNotification called from an async pipeline, outside a try or inside
\* the catch, then return.
Report(r, n, outcome, fault) ==
    IF fault = "notify" THEN Rejected(r, "notify") ELSE End(Notify(r, n), outcome)

\* main.js:197-234: minifyJS up to its first await, which includes the
\* synchronous executor of runMinifier (main.js:340-377).
minifyJS(r, inputPath, deps, rd, spawn, fault) ==
    IF TerserMissing(deps)
    THEN Report(r, TerserNotInstalled, "toolMissing", fault)
    ELSE IF fault = "suffixRead" THEN Rejected(r, "suffixRead")
    ELSE
    LET suffix     == JsSuffix(r.cfg)
        outputPath == OutputPathJS(inputPath, suffix)
        r1 == [r EXCEPT !.family = "js", !.suffix = suffix,
                        !.outputPath = outputPath]
    IN
    IF SamePath(inputPath, outputPath) THEN End(r1, "samePath")
    ELSE IF rd.kind = "throws"
    THEN Report([r1 EXCEPT !.read = "throws"], JsFailedNote(HostError("read")),
                "readFailed", fault)
    ELSE
    LET r2 == [r1 EXCEPT !.read = "ok", !.content = rd.content] IN
    IF rd.content = <<>>
    THEN Report(r2, JsFailedNote(<<"Input file is empty">>), "emptyInput", fault)
    ELSE
    LET r3 == [r2 EXCEPT !.originalSize = TextLen(rd.content),
                         !.spawns = @ + 1,
                         !.args = [tool |-> "terser", input |-> <<>>, output |-> <<>>]]
    IN
    IF spawn = "throws"
    THEN Report(r3, JsFailedNote(HostError("spawn")), "spawnFailed", fault)
    ELSE [r3 EXCEPT !.pc = "running", !.run = "pending"]

\* main.js:264-314: minifyCSS up to its await.
minifyCSS(r, inputPath, deps, sizeStat, spawn, fault) ==
    IF LightningMissing(deps)
    THEN Report(r, LightningNotInstalled, "toolMissing", fault)
    ELSE IF fault = "suffixRead" THEN Rejected(r, "suffixRead")
    ELSE
    LET suffix     == CssSuffix(r.cfg)
        outputPath == OutputPathCSS(inputPath, suffix)
        r1 == [r EXCEPT !.family = "css", !.suffix = suffix,
                        !.outputPath = outputPath]
    IN
    IF SamePath(inputPath, outputPath) THEN End(r1, "samePath")
    ELSE
    LET r2 == [r1 EXCEPT !.sizeStat = sizeStat] IN
    IF sizeStat.kind = "throws"
    THEN Report(r2, CssFailedNote(HostError("stat")), "sizeQueryFailed", fault)
    ELSE IF sizeStat.kind \in {"undefined", "null"}
    THEN Report(r2, CssFailedNote(<<"TypeError: originalStats.size">>),
                "sizeQueryFailed", fault)
    ELSE
    LET r3 == [r2 EXCEPT !.originalSize = sizeStat.size,
                         !.spawns = @ + 1,
                         !.args = [tool |-> "lightningcss", input |-> inputPath,
                                   output |-> outputPath]]
    IN
    IF spawn = "throws"
    THEN Report(r3, CssFailedNote(HostError("spawn")), "spawnFailed", fault)
    ELSE [r3 EXCEPT !.pc = "running", !.run = "pending"]

\* main.js:138-194
handleSave(syntax, filePath, statKind, cfg, deps, rd, sizeStat, spawn, fault) ==
    LET r0 == [IdleJob EXCEPT !.syntax = syntax, !.path = filePath, !.cfg = cfg] IN
    IF filePath = <<>> THEN End(r0, "noPath")
    ELSE
    LET r1 == [r0 EXCEPT !.remoteStat = statKind] IN
    IF isRemoteFile(statKind)
    THEN IF fault = "notify" THEN Caught(r1, "notify")
         ELSE End(Notify(r1, RemoteNote(filePath)), "remote")
    ELSE IF syntax = "javascript"
    THEN IF fault = "enabledRead" THEN Caught(r1, "enabledRead")
         ELSE IF ~TerserEnabled(cfg) THEN End(r1, "disabled")
         ELSE IF AlreadyMinifiedJS(filePath) THEN End(r1, "alreadyMinified")
         ELSE minifyJS(r1, filePath, deps, rd, spawn, fault)
    ELSE IF CssFamily(syntax)
    THEN IF fault = "enabledRead" THEN Caught(r1, "enabledRead")
         ELSE IF ~LightningEnabled(cfg) THEN End(r1, "disabled")
         ELSE IF AlreadyMinifiedCSS(filePath) THEN End(r1, "alreadyMinified")
         ELSE minifyCSS(r1, filePath, deps, sizeStat, spawn, fault)
    ELSE End(r1, "ignored")

\* No output file written yet.
NoFiles == [p \in {} |-> <<>>]

WriteFileKeepsExisting(fs, path, data) ==
    IF path \in DOMAIN fs THEN fs
    ELSE [p \in DOMAIN fs \cup {path} |-> IF p = path THEN data ELSE fs[p]]

\* main.js:237-239: nova.fs.open(path, "w") creates or truncates the file,
\* write puts the data in it.
WriteFile(fs, path, data) ==
    [p \in DOMAIN fs \cup {path} |-> IF p = path THEN data ELSE fs[p]]

jsAfterExitOpensFirst(r, status, wr) ==
    LET res == runMinifierExit(status, r.stdoutOutput, r.stderrOutput, "Terser")
        r1  == [r EXCEPT !.status = status,
                         !.run = IF res.kind = "resolve" THEN "resolved" ELSE "rejected",
                         !.opened = Append(@, r.outputPath)]
    IN
    IF res.kind = "reject"
    THEN End(Notify(r1, JsFailedNote(res.message)), "ToolFailed")
    ELSE
    LET savedAmount == r.originalSize - TextLen(res.value)
        r2 == [r1 EXCEPT !.written = Append(@, [path |-> r.outputPath, data |-> res.value]),
                         !.savedAmount = savedAmount]
    IN End(Notify(r2, JsSuccessNote(r.outputPath, savedAmount)), "Success")

jsAfterExitNeverRejects(r, status, wr) ==
    LET res == runMinifierExit(status, r.stdoutOutput, r.stderrOutput, "Terser")
        r1  == [r EXCEPT !.status = status,
                         !.run = IF res.kind = "resolve" THEN "resolved" ELSE "pending"]
    IN
    IF res.kind = "reject"
    THEN [r1 EXCEPT !.pc = "awaiting"]
    ELSE IF wr = "openThrows"
    THEN End(Notify(r1, JsFailedNote(HostError("open"))), "WriteFailed")
    ELSE IF wr = "writeThrows"
    THEN End(Notify([r1 EXCEPT !.opened = Append(@, r.outputPath)],
                    JsFailedNote(HostError("write"))), "WriteFailed")
    ELSE
    LET savedAmount == r.originalSize - TextLen(res.value)
        r2 == [r1 EXCEPT !.opened = Append(@, r.outputPath),
                         !.written = Append(@, [path |-> r.outputPath, data |-> res.value]),
                         !.savedAmount = savedAmount]
    IN End(Notify(r2, JsSuccessNote(r.outputPath, savedAmount)), "Success")

\* main.js:230-260: minifyJS after the child's exit.  wr is what opening and
\* writing the output file does: ok | openThrows | writeThrows.
jsAfterExit(r, status, wr) ==
    LET res == runMinifierExit(status, r.stdoutOutput, r.stderrOutput, "Terser")
        r1  == [r EXCEPT !.status = status,
                         !.run = IF res.kind = "resolve" THEN "resolved" ELSE "rejected"]
    IN
    IF res.kind = "reject"
    THEN End(Notify(r1, JsFailedNote(res.message)), "ToolFailed")
    ELSE IF wr = "openThrows"
    THEN End(Notify(r1, JsFailedNote(HostError("open"))), "WriteFailed")
    ELSE IF wr = "writeThrows"
    THEN End(Notify([r1 EXCEPT !.opened = Append(@, r.outputPath)],
                    JsFailedNote(HostError("write"))), "WriteFailed")
    ELSE
    LET savedAmount == r.originalSize - TextLen(res.value)
        r2 == [r1 EXCEPT !.opened = Append(@, r.outputPath),
                         !.written = Append(@, [path |-> r.outputPath, data |-> res.value]),
                         !.savedAmount = savedAmount]
    IN End(Notify(r2, JsSuccessNote(r.outputPath, savedAmount)), "Success")

cssAfterExitRetries(r, status, outStat) ==
    LET res == cssExit(status, r.stderrOutput)
        r1  == [r EXCEPT !.toolWrote = IF status = 0 THEN Append(@, r.args.output) ELSE @]
    IN
    IF res.kind = "reject"
    THEN [r1 EXCEPT !.spawns = @ + 1, !.stderrOutput = <<>>]
    ELSE
    LET savedAmount == r.originalSize - outStat.size
        r2 == [r1 EXCEPT !.status = status, !.run = "resolved", !.outStat = outStat,
                         !.savedAmount = savedAmount]
    IN End(Notify(r2, CssSuccessNote(r.outputPath, savedAmount)), "Success")

\* main.js:304-335: minifyCSS after the child's exit.  With status 0 the child
\* has written its -o path itself.
cssAfterExit(r, status, outStat) ==
    LET res == cssExit(status, r.stderrOutput)
        r1  == [r EXCEPT !.status = status,
                         !.run = IF res.kind = "resolve" THEN "resolved" ELSE "rejected",
                         !.toolWrote = IF status = 0 THEN Append(@, r.args.output) ELSE @]
    IN
    IF res.kind = "reject"
    THEN End(Notify(r1, CssFailedNote(res.message)), "ToolFailed")
    ELSE
    LET r2 == [r1 EXCEPT !.outStat = outStat] IN
    IF outStat.kind = "throws"
    THEN End(Notify(r2, CssFailedNote(HostError("stat"))), "sizeQueryFailed")
    ELSE IF outStat.kind \in {"undefined", "null"}
    THEN End(Notify(r2, CssFailedNote(<<"TypeError: minifiedStats.size">>)),
             "sizeQueryFailed")
    ELSE
    LET savedAmount == r.originalSize - outStat.size
        r3 == [r2 EXCEPT !.savedAmount = savedAmount]
    IN End(Notify(r3, CssSuccessNote(r.outputPath, savedAmount)), "Success")


----------------------------------------------------------------------------
\* Activation (main.js:8-73).  Each probe is one child of checkCommand; the
\* machine decides its exit status.

ProbeStatuses(tool) == IF installed[tool] THEN {0} ELSE {1}

\* What a probe's child prints, chunk by chunk.
ProbeChunks == {<<"10.2", "\n">>, <<"\n">>}

\* main.js:91: a checkCommand that has captured nothing yet.
NoProbe == [raw |-> <<>>, output |-> <<>>]

\* A version: null, or the text captured.
NullVersion == [null |-> TRUE, text |-> <<>>]

\* A probe that has not resolved.
NoCheck == [resolved |-> FALSE, success |-> FALSE, version |-> NullVersion,
            raw |-> <<>>]

\* main.js:97-103, the onDidExit callback of checkCommand; p is the probe's
\* capture.
checkCommandExit(status, p) ==
    IF status = 0
    THEN [resolved |-> TRUE, success |-> TRUE,
          version |-> [null |-> FALSE, text |-> p.output], raw |-> p.raw]
    ELSE [resolved |-> TRUE, success |-> FALSE, version |-> NullVersion,
          raw |-> p.raw]

\* main.js:105: process.start() of the next probe, inside the executor of
\* checkCommand's promise.  When it throws, the promise is rejected, the
\* await in activate throws and the promise of activate is rejected.
StartProbe(pc, spawn) ==
    IF pc \in {"npmCheck", "terserCheck", "lightningCheck"} /\ spawn = "throws"
    THEN "rejected"
    ELSE pc

\* The tool a position of activate awaits the probe of.
ProbeOf(pc) ==
    CASE pc = "npmCheck"       -> "npm"
      [] pc = "terserCheck"    -> "terser"
      [] pc = "lightningCheck" -> "lightningcss"

\* main.js:105: activate went on to position pc; when that is a probe, its
\* process.start() was called.
Spawned(log, pc) ==
    IF pc \in {"npmCheck", "terserCheck", "lightningCheck"}
    THEN Append(log, ProbeOf(pc))
    ELSE log

\* main.js:47-72: after the Terser step, probe Lightning CSS if it is enabled,
\* else register the save listeners.
AfterTerserStep(cfg) == IF LightningEnabled(cfg) THEN "lightningCheck" ELSE "registered"

AfterNpmStepIgnoresSetting(cfg) == "terserCheck"

\* main.js:28-31: after the npm step, probe Terser if it is enabled.
AfterNpmStep(cfg) == IF TerserEnabled(cfg) THEN "terserCheck" ELSE AfterTerserStep(cfg)

EditorIds == {"e1", "e2"}

\* An editor: whether the workspace has it open, how many times handleSave
\* is subscribed to its onDidSave, how often its document was saved since
\* the listeners were registered and how often handleSave ran for it, and
\* how often its document was saved before activation had ended.
ClosedEditor == [open |-> FALSE, subs |-> 0, saves |-> 0, handled |-> 0, early |-> 0]

\* main.js:71, editor.onDidSave(handleSave)
Subscribe(ed) == [ed EXCEPT !.subs = @ + 1]

RegisterListenersTwice(eds) ==
    [e \in DOMAIN eds |-> IF eds[e].open THEN Subscribe(Subscribe(eds[e])) ELSE eds[e]]

\* main.js:70-72, nova.workspace.onDidAddTextEditor(callback): the host calls
\* the callback for each editor it opens from now on and, at once, for every
\* editor that is open already.
RegisterListeners(eds) ==
    [e \in DOMAIN eds |-> IF eds[e].open THEN Subscribe(eds[e]) ELSE eds[e]]

AtEndOrBefore(pc, eds) ==
    IF \A e \in DOMAIN eds : eds[e].subs = 0 THEN RegisterListeners(eds) ELSE eds

\* main.js:66-72 run when activate reaches its end.
AtEnd(pc, eds) == IF pc = "registered" THEN RegisterListeners(eds) ELSE eds

\* main.js:8-12: activate starts and awaits the npm probe.
activate ==
    /\ actPc = "init"
    /\ \E spawn \in SpawnResults : actPc' = StartProbe("npmCheck", spawn)
    /\ probed' = Spawned(probed, "npmCheck")
    /\ UNCHANGED <<config, installed, dependencies, actNotes, job, probe, checks, extraction, files, editors, jump>>

\* main.js:93-95: the onStdout callback of checkCommand.
ProbeStdout ==
    /\ actPc \in {"npmCheck", "terserCheck", "lightningCheck"}
    /\ Len(probe.raw) < MaxChunks
    /\ \E line \in ProbeChunks :
         probe' = [raw |-> Append(probe.raw, line),
                   output |-> probe.output \o Trim(line)]
    /\ UNCHANGED <<config, installed, dependencies, actPc, actNotes, job, checks, extraction, files, editors, probed, jump>>

\* main.js:12-31: the npm probe exits.
NpmCheckExit ==
    /\ actPc = "npmCheck"
    /\ \E status \in ProbeStatuses("npm"), spawn \in SpawnResults :
         LET npmCheck == checkCommandExit(status, probe) IN
         /\ checks' = [checks EXCEPT !.npm = npmCheck]
         /\ dependencies' = [dependencies EXCEPT !.npm = npmCheck.success]
         /\ IF ~npmCheck.success
            THEN /\ actNotes' = Append(actNotes, NpmNotFound)
                 /\ actPc' = "aborted"
                 /\ probed' = probed
            ELSE /\ actNotes' = actNotes
                 /\ actPc' = StartProbe(AfterNpmStep(config), spawn)
                 /\ probed' = Spawned(probed, AfterNpmStep(config))
    /\ probe' = NoProbe
    /\ editors' = AtEnd(actPc', editors)
    /\ UNCHANGED <<config, installed, job, extraction, files, jump>>

\* main.js:31-50: the Terser probe exits.
TerserCheckExit ==
    /\ actPc = "terserCheck"
    /\ \E status \in ProbeStatuses("terser"), spawn \in SpawnResults :
         LET terserCheck == checkCommandExit(status, probe) IN
         /\ checks' = [checks EXCEPT !.terser = terserCheck]
         /\ dependencies' = [dependencies EXCEPT !.terser = terserCheck.success]
         /\ actNotes' = IF ~terserCheck.success
                        THEN Append(actNotes, TerserNotFound) ELSE actNotes
         /\ actPc' = StartProbe(AfterTerserStep(config), spawn)
    /\ probed' = Spawned(probed, AfterTerserStep(config))
    /\ probe' = NoProbe
    /\ editors' = AtEnd(actPc', editors)
    /\ UNCHANGED <<config, installed, job, extraction, files, jump>>

\* main.js:50-72: the Lightning CSS probe exits; the listeners are registered.
LightningCheckExit ==
    /\ actPc = "lightningCheck"
    /\ \E status \in ProbeStatuses("lightningcss") :
         LET lightningCheck == checkCommandExit(status, probe) IN
         /\ checks' = [checks EXCEPT !.lightningcss = lightningCheck]
         /\ dependencies' = [dependencies EXCEPT !.lightningcss = lightningCheck.success]
         /\ actNotes' = IF ~lightningCheck.success
                        THEN Append(actNotes, LightningNotFound) ELSE actNotes
         /\ actPc' = "registered"
    /\ probe' = NoProbe
    /\ editors' = AtEnd(actPc', editors)
    /\ UNCHANGED <<config, installed, job, extraction, files, probed, jump>>

----------------------------------------------------------------------------
\* The environment and the jobs.

\* The user edits the extension's settings.  No code reads the store except
\* at activation and at a save, so edits are taken between jobs.
SetConfig ==
    /\ \A j \in Jobs : job[j].pc = "idle"
    /\ \E c \in Configs : c # config /\ config' = c
    /\ UNCHANGED <<installed, dependencies, actPc, actNotes, job, probe, checks, extraction, files, editors, probed, jump>>

\* A subscribed editor saves (main.js:71): handleSave runs to its return,
\* which includes minifyJS/minifyCSS up to their first await.  The document
\* and what the host calls do are drawn from the given sets.
SaveFrom(j, syntaxes, paths, statKinds, reads, inputStats, spawns, faults) ==
    /\ actPc = "registered"
    /\ job[j].pc = "idle"
    /\ \A k \in 1..(j - 1) : job[k].pc # "idle"      \* the slots are taken in order
    /\ \E syntax \in syntaxes, filePath \in paths, statKind \in statKinds :
         \E rd \in (IF syntax = "javascript" THEN reads ELSE {NoRead}),
            sizeStat \in (IF syntax = "javascript" THEN {NoStat} ELSE inputStats),
            spawn \in spawns, fault \in faults :
           job' = [job EXCEPT ![j] =
                      [handleSave(syntax, filePath, statKind, config, dependencies,
                                  rd, sizeStat, spawn, fault)
                       EXCEPT !.saveNo = 1 + Cardinality({k \in Jobs : job[k].pc # "idle"})]]
    /\ UNCHANGED <<config, installed, dependencies, actPc, actNotes, probe, checks, extraction, files, probed, jump>>

\* A save of any document, with every outcome of the file and process calls
\* of the host.
Save(j) ==
    /\ SaveFrom(j, Syntaxes, Paths, StatKinds, ReadResults, InputStats, SpawnResults,
                {"none"})
    /\ UNCHANGED editors

\* A save during which one of the host's configuration or notification calls
\* throws.
SaveFaulty(j) ==
    /\ SaveFrom(j, Syntaxes, Paths, StatKinds,
                {[kind |-> "ok", content |-> <<"src24">>],
                 [kind |-> "throws", content |-> <<>>]},
                {[kind |-> "stats", size |-> 1000]}, {"started"},
                HostFaults \ {"none"})
    /\ UNCHANGED editors

\* A save of the local javascript file /a.js, read and spawned without fault.
SaveJsFile(j) ==
    /\ SaveFrom(j, {"javascript"}, {Stem \o JsExt}, {"stats"},
                {[kind |-> "ok", content |-> <<"src1000">>]}, {NoStat}, {"started"},
                {"none"})
    /\ UNCHANGED editors

\* The workspace opens a text editor; once the listener of main.js:70 is
\* registered, the host calls it with the editor.
OpenEditor(e) ==
    /\ ~editors[e].open
    /\ editors' = [editors EXCEPT ![e] =
                      IF actPc = "registered"
                      THEN Subscribe([ClosedEditor EXCEPT !.open = TRUE])
                      ELSE [ClosedEditor EXCEPT !.open = TRUE]]
    /\ UNCHANGED <<config, installed, dependencies, actPc, actNotes, probe, checks, extraction, files, job, probed, jump>>

\* The user saves the document /a.js of an open editor after activation has
\* ended: the host calls each onDidSave subscription of the editor.
EditorSave(e, j) ==
    /\ actPc = "registered"
    /\ editors[e].open
    /\ editors[e].saves < MaxSaves
    /\ editors' = [editors EXCEPT ![e].saves = @ + 1,
                                  ![e].handled = @ + editors[e].subs]
    /\ IF editors[e].subs = 0
       THEN UNCHANGED <<config, installed, dependencies, actPc, actNotes, probe, checks, extraction, files, job, probed, jump>>
       ELSE SaveFrom(j, {"javascript"}, {Stem \o JsExt}, {"stats"},
                     {[kind |-> "ok", content |-> <<"src1000">>]}, {NoStat},
                     {"started"}, {"none"})

WriterReadyClosesOnly(j) ==
    /\ job[j].pc = "running"
    /\ job[j].family = "js"
    /\ ~job[j].stdinClosed
    /\ job' = [job EXCEPT ![j].stdinClosed = TRUE]
    /\ UNCHANGED <<config, installed, dependencies, actPc, actNotes, probe, checks, extraction, files, editors, probed, jump>>

\* The user saves the document /a.js of an open editor while activate has
\* not reached its end: the host calls each onDidSave subscription the
\* editor has, and each call runs handleSave with the flags as they are.
EarlySave(e) ==
    /\ actPc # "registered"
    /\ editors[e].open
    /\ editors[e].early < MaxSaves
    /\ editors' = [editors EXCEPT ![e].early = @ + 1,
                                  ![e].handled = @ + editors[e].subs]
    /\ job' = IF editors[e].subs = 0 \/ job[1].pc # "idle" THEN job
              ELSE [job EXCEPT ![1] =
                      handleSave("javascript", Stem \o JsExt, "stats", config,
                                 dependencies,
                                 [kind |-> "ok", content |-> <<"src1000">>],
                                 NoStat, "started", "none")]
    /\ UNCHANGED <<config, installed, dependencies, actPc, actNotes, probe, checks, extraction, files, probed, jump>>

\* main.js:350-354: the stdin writer is ready; the content is written and the
\* stream closed.
WriterReady(j) ==
    /\ job[j].pc = "running"
    /\ job[j].family = "js"
    /\ ~job[j].stdinClosed
    /\ job' = [job EXCEPT ![j].stdin = Append(@, job[j].content),
                          ![j].stdinClosed = TRUE]
    /\ UNCHANGED <<config, installed, dependencies, actPc, actNotes, probe, checks, extraction, files, editors, probed, jump>>

\* main.js:356-358: the onStdout callback of runMinifier, for a child that
\* prints chunks of the given set.
ChildStdoutFrom(j, lines) ==
    /\ job[j].pc = "running"
    /\ job[j].family = "js"
    /\ Len(job[j].stdoutOutput) + Len(job[j].stderrOutput) < MaxChunks
    /\ \E line \in lines :
         job' = [job EXCEPT ![j].stdoutOutput = @ \o <<line>>]
    /\ UNCHANGED <<config, installed, dependencies, actPc, actNotes, probe, checks, extraction, files, editors, probed, jump>>

ChildStdout(j) == ChildStdoutFrom(j, OutChunks)

\* A child whose chunks all hold the same text; its output varies in the
\* number of chunks.
ChildStdoutChunk(j) == ChildStdoutFrom(j, {"min400"})

\* main.js:300-302 and 360-362: the onStderr callbacks.
ChildStderr(j) ==
    /\ job[j].pc = "running"
    /\ Len(job[j].stdoutOutput) + Len(job[j].stderrOutput) < MaxChunks
    /\ \E line \in ErrChunks :
         job' = [job EXCEPT ![j].stderrOutput = @ \o <<line>>]
    /\ UNCHANGED <<config, installed, dependencies, actPc, actNotes, probe, checks, extraction, files, editors, probed, jump>>

\* main.js:356-358: the onStdout callback of runMinifier, delivered after the
\* onDidExit callback has run.  The host gives no order between the two
\* callbacks; the closure's stdoutOutput still grows, but the promise has been
\* settled with the value it had at the exit.
LateStdout(j) ==
    /\ job[j].pc = "done"
    /\ job[j].family = "js"
    /\ job[j].run \in {"resolved", "rejected"}
    /\ Len(job[j].stdoutOutput) + Len(job[j].stderrOutput) < MaxChunks
    /\ \E line \in OutChunks :
         job' = [job EXCEPT ![j].stdoutOutput = @ \o <<line>>,
                            ![j].late = @ + 1]
    /\ UNCHANGED <<config, installed, dependencies, actPc, actNotes, probe, checks, extraction, files, editors, probed, jump>>

JsChildExitClearsFlag(j) ==
    /\ job[j].pc = "running"
    /\ job[j].family = "js"
    /\ \E status \in ExitStatuses :
         LET r == jsAfterExit(job[j], status, "openThrows") IN
         /\ job' = [job EXCEPT ![j] = r]
         /\ dependencies' = [dependencies EXCEPT !.terser = (status = 0)]
    /\ UNCHANGED <<config, installed, actPc, actNotes, probe, checks, extraction, editors, files, probed, jump>>

\* main.js:364-375 then 236-260: the Terser child exits and minifyJS resumes.
JsChildExit(j) ==
    /\ job[j].pc = "running"
    /\ job[j].family = "js"
    /\ \E status \in ExitStatuses, wr \in {"ok", "openThrows", "writeThrows"} :
         LET r == jsAfterExit(job[j], status, wr) IN
         IF r.opened = <<>>
         THEN /\ job' = [job EXCEPT ![j] = r]
              /\ files' = files
         ELSE /\ job' = [job EXCEPT ![j] =
                           [r EXCEPT !.writeNo =
                                1 + Cardinality({k \in Jobs : job[k].writeNo > 0})]]
              /\ files' = WriteFile(files, r.outputPath,
                                    IF r.written = <<>> THEN <<>> ELSE r.written[1].data)
    /\ UNCHANGED <<config, installed, dependencies, actPc, actNotes, probe, checks, extraction, editors, probed, jump>>

\* main.js:304-311 then 316-335: the Lightning CSS child exits and minifyCSS
\* resumes.
CssChildExit(j) ==
    /\ job[j].pc = "running"
    /\ job[j].family = "css"
    /\ \E status \in ExitStatuses, outStat \in OutputStats :
         LET r == cssAfterExit(job[j], status, outStat) IN
         /\ job' = [job EXCEPT ![j] = r]
         /\ files' = IF r.toolWrote = <<>> THEN files
                      ELSE WriteFile(files, r.toolWrote[1], <<"lightningcss -o">>)
    /\ UNCHANGED <<config, installed, dependencies, actPc, actNotes, probe, checks, extraction, editors, probed, jump>>

\* The job has returned; its locals are dropped.  Nothing in main.js reads an
\* output file back, so once no job is at hand the files are left out too.
Discard(j) ==
    /\ job[j].pc = "done"
    /\ job' = [job EXCEPT ![j] = IdleJob]
    /\ files' = IF \A k \in Jobs \ {j} : job[k].pc = "idle" THEN NoFiles ELSE files
    /\ UNCHANGED <<config, installed, dependencies, actPc, actNotes, probe, checks, extraction, editors, probed, jump>>

Init ==
    /\ config \in Configs
    /\ installed \in [Tools -> BOOLEAN]
    /\ dependencies = [npm |-> FALSE, terser |-> FALSE, lightningcss |-> FALSE]
    /\ actPc = "init"
    /\ actNotes = <<>>
    /\ probe = NoProbe
    /\ checks = [t \in Tools |-> NoCheck]
    /\ probed = <<>>
    /\ jump = NoJump
    /\ extraction = NoExtraction
    /\ files = NoFiles
    /\ editors = [e \in EditorIds |-> ClosedEditor]
    /\ job = [j \in Jobs |-> IdleJob]

\* Spec: any configuration and machine, any document; saves arrive one at a
\* time, each after the previous job has returned, so one job slot is used.
SeqJobs == {1}

Next ==
    \/ activate
    \/ NpmCheckExit
    \/ TerserCheckExit
    \/ LightningCheckExit
    \/ SetConfig
    \/ \E j \in SeqJobs :
         \/ Save(j)
         \/ WriterReady(j)
         \/ ChildStdout(j)
         \/ ChildStderr(j)
         \/ JsChildExit(j)
         \/ CssChildExit(j)
         \/ LateStdout(j)
         \/ Discard(j)

Spec == Init /\ [][Next]_vars

\* SpecConcurrent: default settings, every tool installed; /a.js is saved
\* again while earlier jobs for it are still in flight, one job per slot.
\* The children print to stdout only, and the callbacks that do not bear on
\* what the jobs write (the stdin writer, late output) are left out.
InitConcurrent ==
    /\ config = [terserEnabled |-> "null", lightningEnabled |-> "null",
                 terserSuffix |-> <<>>, lightningSuffix |-> <<>>]
    /\ installed = [t \in Tools |-> TRUE]
    /\ dependencies = [npm |-> FALSE, terser |-> FALSE, lightningcss |-> FALSE]
    /\ actPc = "init"
    /\ actNotes = <<>>
    /\ probe = NoProbe
    /\ checks = [t \in Tools |-> NoCheck]
    /\ probed = <<>>
    /\ jump = NoJump
    /\ extraction = NoExtraction
    /\ files = NoFiles
    /\ editors = [e \in EditorIds |-> ClosedEditor]
    /\ job = [j \in Jobs |-> IdleJob]

NextConcurrent ==
    \/ activate
    \/ NpmCheckExit
    \/ TerserCheckExit
    \/ LightningCheckExit
    \/ \E j \in Jobs :
         \/ SaveJsFile(j)
         \/ ChildStdoutChunk(j)
         \/ JsChildExit(j)

SpecConcurrent == InitConcurrent /\ [][NextConcurrent]_vars

\* SpecFaults: any configuration and machine, any document; during the
\* dispatch of each save one kind of host call throws.
NextFaults ==
    \/ activate
    \/ NpmCheckExit
    \/ TerserCheckExit
    \/ LightningCheckExit
    \/ \E j \in SeqJobs :
         \/ SaveFaulty(j)
         \/ ChildStdout(j)
         \/ JsChildExit(j)
         \/ CssChildExit(j)
         \/ Discard(j)

SpecFaults == Init /\ [][NextFaults]_vars

\* SpecActivate: activation alone, with what each probe's child prints.
NextActivate ==
    \/ activate
    \/ ProbeStdout
    \/ NpmCheckExit
    \/ TerserCheckExit
    \/ LightningCheckExit

SpecActivate == Init /\ [][NextActivate]_vars

\* SpecEditors: any configuration and machine; editors are open when the
\* extension is activated or are opened later, and their document /a.js is
\* saved, before activation has ended and after.
InitEditors ==
    /\ config \in Configs
    /\ installed \in [Tools -> BOOLEAN]
    /\ dependencies = [npm |-> FALSE, terser |-> FALSE, lightningcss |-> FALSE]
    /\ actPc = "init"
    /\ actNotes = <<>>
    /\ probe = NoProbe
    /\ checks = [t \in Tools |-> NoCheck]
    /\ probed = <<>>
    /\ jump = NoJump
    /\ extraction = NoExtraction
    /\ files = NoFiles
    /\ editors \in [EditorIds -> {ClosedEditor, [ClosedEditor EXCEPT !.open = TRUE]}]
    /\ job = [j \in Jobs |-> IdleJob]

NextEditors ==
    \/ activate
    \/ NpmCheckExit
    \/ TerserCheckExit
    \/ LightningCheckExit
    \/ \E e \in EditorIds : OpenEditor(e)
    \/ \E e \in EditorIds : EarlySave(e)
    \/ \E j \in SeqJobs :
         \/ \E e \in EditorIds : EditorSave(e, j)
         \/ JsChildExit(j)
         \/ Discard(j)

SpecEditors == InitEditors /\ [][NextEditors]_vars

\* SpecExtract: the extraction applied to error messages of either tool.
InitExtract ==
    /\ config = [terserEnabled |-> "null", lightningEnabled |-> "null",
                 terserSuffix |-> <<>>, lightningSuffix |-> <<>>]
    /\ installed = [t \in Tools |-> TRUE]
    /\ dependencies = [npm |-> FALSE, terser |-> FALSE, lightningcss |-> FALSE]
    /\ actPc = "init"
    /\ actNotes = <<>>
    /\ probe = NoProbe
    /\ checks = [t \in Tools |-> NoCheck]
    /\ probed = <<>>
    /\ jump = NoJump
    /\ job = [j \in Jobs |-> IdleJob]
    /\ files = NoFiles
    /\ editors = [e \in EditorIds |-> ClosedEditor]
    /\ \E tool \in {"js", "css"}, b \in TextBefore, f \in Fragments, a \in TextAfter :
         extraction = [NoExtraction EXCEPT !.tool = tool, !.before = b,
                                           !.fragment = f, !.after = a]

\* README.md:682-708, 770-800: the catch block extracts from error.message.
Extract ==
    /\ extraction.tool # ""
    /\ ~extraction.done
    /\ extraction' = [extraction EXCEPT
                         !.done = TRUE,
                         !.result = extract(Message(extraction), extraction.tool)]
    /\ UNCHANGED <<config, installed, dependencies, actPc, actNotes, probe, checks, job, files, editors, probed, jump>>

NextExtract == Extract

SpecExtract == InitExtract /\ [][NextExtract]_vars

\* SpecShared: default settings, any machine; the documents /a.js and /a.css
\* are saved while jobs of earlier saves are still in flight, one job per
\* slot, and the records of ended jobs are kept.
InitShared ==
    /\ Init
    /\ config = [terserEnabled |-> "null", lightningEnabled |-> "null",
                 terserSuffix |-> <<>>, lightningSuffix |-> <<>>]

\* A save of the local document /a.js or /a.css, read, measured and spawned
\* without fault.
SaveEither(j) ==
    /\ SaveFrom(j, {"javascript", "css"}, {Stem \o JsExt, Stem \o CssExt}, {"stats"},
                {[kind |-> "ok", content |-> <<"src1000">>]},
                {[kind |-> "stats", size |-> 1000]}, {"started"}, {"none"})
    /\ UNCHANGED editors

NextShared ==
    \/ activate
    \/ NpmCheckExit
    \/ TerserCheckExit
    \/ LightningCheckExit
    \/ \E j \in Jobs :
         \/ SaveEither(j)
         \/ ChildStdoutChunk(j)
         \/ JsChildExit(j)
         \/ CssChildExit(j)

SpecShared == InitShared /\ [][NextShared]_vars

\* SpecLive: any machine, the output suffixes unset; local documents of both
\* families are saved, and every child that was started exits: the host
\* calls the onDidExit callback of each probe and of each minifier child.
InitLive ==
    /\ Init
    /\ config.terserSuffix = <<>>
    /\ config.lightningSuffix = <<>>

\* A save of a local document whose family is javascript or css.
SaveLocal(j) ==
    /\ SaveFrom(j, {"javascript", "css"}, {Stem \o JsExt, Stem \o CssExt}, {"stats"},
                {[kind |-> "ok", content |-> <<"src24">>],
                 [kind |-> "ok", content |-> <<>>]},
                {[kind |-> "stats", size |-> 1000]}, SpawnResults, {"none"})
    /\ UNCHANGED editors

NextLive ==
    \/ activate
    \/ NpmCheckExit
    \/ TerserCheckExit
    \/ LightningCheckExit
    \/ \E j \in SeqJobs :
         \/ SaveLocal(j)
         \/ WriterReady(j)
         \/ ChildStdout(j)
         \/ ChildStderr(j)
         \/ JsChildExit(j)
         \/ CssChildExit(j)
         \/ Discard(j)

\* Every child that was started exits.
ChildrenExit ==
    /\ WF_vars(NpmCheckExit)
    /\ WF_vars(TerserCheckExit)
    /\ WF_vars(LightningCheckExit)
    /\ \A j \in SeqJobs : WF_vars(JsChildExit(j)) /\ WF_vars(CssChildExit(j))

SpecLive == InitLive /\ [][NextLive]_vars /\ ChildrenExit

\* SpecJump: jumpToError applied to a document, a line and a column.
InitJump ==
    /\ config = [terserEnabled |-> "null", lightningEnabled |-> "null",
                 terserSuffix |-> <<>>, lightningSuffix |-> <<>>]
    /\ installed = [t \in Tools |-> TRUE]
    /\ dependencies = [npm |-> FALSE, terser |-> FALSE, lightningcss |-> FALSE]
    /\ actPc = "init"
    /\ actNotes = <<>>
    /\ probe = NoProbe
    /\ checks = [t \in Tools |-> NoCheck]
    /\ probed = <<>>
    /\ extraction = NoExtraction
    /\ job = [j \in Jobs |-> IdleJob]
    /\ files = NoFiles
    /\ editors = [e \in EditorIds |-> ClosedEditor]
    /\ \E d \in Documents, l \in Positions, c \in Positions :
         jump = [NoJump EXCEPT !.document = d, !.line = l, !.column = c]

\* README.md:692, 780: the catch block calls jumpToError.
Jump ==
    /\ ~jump.done
    /\ jump' = [jump EXCEPT
                   !.done = TRUE,
                   !.selectedRange = jumpToError(jump.document, jump.line, jump.column)]
    /\ UNCHANGED <<config, installed, dependencies, actPc, actNotes, probe, checks, job, files, editors, probed, extraction>>

NextJump == Jump

SpecJump == InitJump /\ [][NextJump]_vars

----------------------------------------------------------------------------
\* Properties.

Started(r) == r.pc # "idle"
Inaccessible(r) == r.path # <<>> /\ r.remoteStat \in {"undefined", "null", "throws"}
CssSyntax(r) == r.syntax \in {"css", "scss", "less"}
\* process.start() was never called.
NoSubprocess(r) == r.spawns = 0 /\ r.pc # "running"
\* A child of the job was started (its run is or was pending).
ChildStarted(r) == r.run # "none"
NothingWritten(r) == r.opened = <<>> /\ r.written = <<>> /\ r.toolWrote = <<>>
\* What the closure's stdoutOutput held when the exit callback ran.
StdoutAtExit(r) == SubSeq(r.stdoutOutput, 1, Len(r.stdoutOutput) - r.late)

\* C1: no job ever writes to its own input path.  In minifyJS and in
\* minifyCSS, for every input path and configured suffix, a job whose
\* computed output path equals its input path has ended without spawning a
\* child and without opening a file for writing; every path a job opens for
\* writing, passes to the child as -o, or that the child writes, differs
\* from the job's input path.
C1_NoJobWritesItsInput ==
    \A j \in Jobs :
      LET r == job[j] IN
      /\ (r.family # "none" /\ r.outputPath = r.path)
            => (r.pc = "done" /\ NoSubprocess(r) /\ NothingWritten(r))
      /\ r.spawns > 0 => (r.outputPath # r.path /\ r.args.output # r.path)
      /\ \A i \in 1..Len(r.opened) : r.opened[i] # r.path
      /\ \A i \in 1..Len(r.written) : r.written[i].path # r.path
      /\ \A i \in 1..Len(r.toolWrote) : r.toolWrote[i] # r.path

\* C1 witness: a CSS job computed an output path equal to its input path and
\* ended there.
C1_Witness ==
    \E j \in Jobs :
      /\ job[j].outcome = "samePath"
      /\ job[j].family = "css"
      /\ job[j].outputPath = job[j].path

\* C2 (as claimed): a saved file whose path already ends with the output
\* suffix configured for its family at the time of the save is never
\* submitted to the pipeline: no child is started and nothing is written.
C2_ConfiguredSuffixSkipped ==
    \A j \in Jobs :
      LET r == job[j] IN
      (/\ Started(r)
       /\ \/ r.syntax = "javascript" /\ EndsWith(r.path, JsSuffix(r.cfg))
          \/ CssSyntax(r) /\ EndsWith(r.path, CssSuffix(r.cfg)))
      => (~ChildStarted(r) /\ NothingWritten(r))

\* C3 (as claimed): a child run is resolved if and only if its exit status
\* is 0, whatever stdout holds.
C3_StatusZeroIffResolved ==
    \A j \in Jobs :
      LET r == job[j] IN
      r.run \in {"resolved", "rejected"} => (r.run = "resolved" <=> r.status = 0)

\* C3 (amended): every non-zero status rejects the run whatever stdout
\* holds; status 0 resolves the run of minifyCSS always and the run of
\* runMinifier exactly when the stdout accumulated at the exit is non-empty.
C3_ExitClassification ==
    \A j \in Jobs :
      LET r == job[j] IN
      r.run \in {"resolved", "rejected"} =>
        (r.run = "resolved"
           <=> (r.status = 0 /\ (r.family = "js" => StdoutAtExit(r) # <<>>)))

\* C3 witness: a Terser run that exited with status 0 and empty stdout was
\* rejected.
C3_Witness ==
    \E j \in Jobs :
      /\ job[j].family = "js"
      /\ job[j].status = 0
      /\ job[j].stdoutOutput = <<>>
      /\ job[j].run = "rejected"

\* C4 (as claimed): with terser.enabled = false, every save of a javascript
\* document, whatever its path, gives no subprocess and no notification.
C4_DisabledJsSilent ==
    \A j \in Jobs :
      LET r == job[j] IN
      (Started(r) /\ r.syntax = "javascript" /\ r.cfg.terserEnabled = "false")
      => (NoSubprocess(r) /\ r.notes = <<>>)

\* C4 (amended): with terser.enabled = false, every save of a javascript
\* document gives no subprocess, and no notification unless the stat query
\* reports the path inaccessible, when the one notification is
\* 'Minification Skipped'.
C4_DisabledJsSilentUnlessRemote ==
    \A j \in Jobs :
      LET r == job[j] IN
      (Started(r) /\ r.syntax = "javascript" /\ r.cfg.terserEnabled = "false")
      => /\ r.pc = "done"
         /\ NoSubprocess(r) /\ NothingWritten(r) /\ r.read = "none"
         /\ IF Inaccessible(r)
            THEN Len(r.notes) = 1 /\ r.notes[1].title = "Minification Skipped"
            ELSE r.notes = <<>>

\* C4 witness: a javascript document with a path ending in .js was saved
\* locally while terser.enabled was false.
C4_Witness ==
    \E j \in Jobs :
      /\ job[j].outcome = "disabled"
      /\ job[j].syntax = "javascript"
      /\ job[j].cfg.terserEnabled = "false"
      /\ job[j].path = Stem \o JsExt
      /\ dependencies.terser

\* C5: a save of a document whose path the stat query reports as not found
\* or inaccessible (undefined, null or a throw) gives exactly one
\* notification, 'Minification Skipped', and no subprocess.
C5_RemoteSkippedOnce ==
    \A j \in Jobs :
      LET r == job[j] IN
      (Started(r) /\ Inaccessible(r))
      => /\ r.pc = "done"
         /\ NoSubprocess(r)
         /\ Len(r.notes) = 1
         /\ r.notes[1].title = "Minification Skipped"
         /\ r.notes[1].id = "remote-file-unsupported"

\* C5 witness: stat returned null for an enabled, installed family.
C5_Witness ==
    \E j \in Jobs :
      /\ job[j].outcome = "remote"
      /\ job[j].remoteStat = "null"
      /\ job[j].syntax = "javascript"
      /\ TerserEnabled(job[j].cfg)
      /\ dependencies.terser

\* C6: while a tool's dependency flag is false, every job of that tool's
\* family is refused at once: no child is spawned, the input file is
\* neither read nor measured, and nothing is written.
C6_MissingToolRefused ==
    \A j \in Jobs :
      LET r == job[j] IN
      (/\ Started(r)
       /\ \/ r.syntax = "javascript" /\ ~dependencies.terser
          \/ CssSyntax(r) /\ ~dependencies.lightningcss)
      => /\ r.pc = "done"
         /\ NoSubprocess(r) /\ NothingWritten(r)
         /\ r.read = "none" /\ r.sizeStat = NoStat

\* C6 witness: minifyJS was entered for a minifiable file with the Terser
\* flag false and refused.
C6_Witness ==
    \E j \in Jobs :
      /\ job[j].outcome = "toolMissing"
      /\ job[j].syntax = "javascript"
      /\ job[j].path = Stem \o JsExt
      /\ ~dependencies.terser

\* C7 (as claimed): the family's settings are read at every save, so that a
\* javascript file saved locally while terser.enabled is not false, with
\* Terser installed on the machine, is minified on that save (its job
\* enters the pipeline and reads the input), also when Terser was disabled
\* at activation.
C7_EnabledAfterActivationMinifies ==
    \A j \in Jobs :
      LET r == job[j] IN
      (/\ Started(r)
       /\ r.syntax = "javascript"
       /\ r.remoteStat = "stats"
       /\ r.cfg.terserEnabled # "false"
       /\ installed["terser"]
       /\ EndsWith(r.path, JsExt) /\ ~EndsWith(r.path, MinJs))
      => (r.family = "js" /\ r.read # "none")

\* The last token but one of a success body: the formatted saved amount.
SavedText(n) == n.body[Len(n.body) - 1]

MinifiedSize(r) ==
    IF r.family = "js" THEN TextLen(r.written[1].data) ELSE r.outStat.size

\* C8 (as claimed): a 1000-byte input minified to 400 bytes and written
\* gives a saved amount of 600, formatted as `0.6 KB`.
C8_SavedAs06KB ==
    \A j \in Jobs :
      LET r == job[j] IN
      (r.outcome = "Success" /\ r.originalSize = 1000 /\ MinifiedSize(r) = 400)
      => (r.savedAmount = 600 /\ SavedText(r.notes[1]) = "0.6 KB")

\* C8 (amended): a 1000-byte input minified to 400 bytes and written gives a
\* saved amount of 600, which the success notification formats as `600 B`.
C8_SavedAs600B ==
    \A j \in Jobs :
      LET r == job[j] IN
      (r.outcome = "Success" /\ r.originalSize = 1000 /\ MinifiedSize(r) = 400)
      => /\ r.savedAmount = 600
         /\ Len(r.notes) = 1
         /\ r.notes[1].id = "minify-success"
         /\ SavedText(r.notes[1]) = "600 B"

\* C8 witness: Terser turned 1000 characters into 400, and they were written.
C8_Witness ==
    \E j \in Jobs :
      /\ job[j].outcome = "Success"
      /\ job[j].family = "js"
      /\ job[j].originalSize = 1000
      /\ job[j].written = <<[path |-> job[j].outputPath, data |-> <<"min400">>]>>

\* C9 (as claimed): when the tool exits with status 0 and a size query
\* fails, the job is still reported as a success.
C9_SizeQueryFailureStillSuccess ==
    \A j \in Jobs :
      LET r == job[j] IN
      (/\ r.pc = "done"
       /\ r.status = 0 /\ r.run = "resolved"
       /\ \/ r.outStat.kind \in {"undefined", "throws"}
          \/ r.sizeStat.kind \in {"undefined", "throws"})
      => (Len(r.notes) = 1 /\ r.notes[1].id = "minify-success")

Category(n) == <<n.id, n.title>>

\* C10 (as claimed): a write failure after a successful Terser run is
\* reported under a category (notification id and title) other than the
\* one a tool failure is reported under: whenever one job ended WriteFailed
\* and another ToolFailed, their notifications differ in id or title.
C10_WriteFailedDistinct ==
    \A j1, j2 \in Jobs :
      (job[j1].outcome = "WriteFailed" /\ job[j2].outcome = "ToolFailed")
      => Category(job[j1].notes[1]) # Category(job[j2].notes[1])

\* C11 (as claimed): in stream mode, for every interleaving of the stdout
\* and exit callbacks, the content the run resolves with and that is written
\* to the output path is the concatenation, in arrival order, of all chunks
\* the child emitted, chunks delivered around the exit included.
C11_AllChunksWritten ==
    \A j \in Jobs :
      LET r == job[j] IN
      (r.family = "js" /\ r.outcome = "Success")
      => r.written = <<[path |-> r.outputPath, data |-> r.stdoutOutput]>>

\* C12 (as claimed): no fault raised while a save is dispatched escapes to
\* the host.  Whenever a host call threw in handleSave or in the part of
\* minifyJS or minifyCSS that runs when handleSave calls it (the dependency
\* check, the configuration read, the notification call), the exception was
\* caught and reported as the one notification 'Unexpected error: ...', and
\* there is neither an uncaught exception nor an unhandled rejection.
C12_NoFaultEscapes ==
    \A j \in Jobs :
      LET r == job[j] IN
      r.raised # ""
      => /\ r.escaped = "none"
         /\ r.notes = <<UnexpectedNote(r.raised)>>

\* The whole text a probe's child printed.
RECURSIVE Concat(_)
Concat(chunks) == IF chunks = <<>> THEN <<>> ELSE Head(chunks) \o Concat(Tail(chunks))

\* C13 (as claimed): a dependency probe always yields a result and
\* activation continues with it: the promise of activate is never rejected
\* by a probe that could not be spawned; a probe that resolved with success
\* has as version the trimmed text of its child's standard output; a probe
\* that resolved without success has version null.
C13_ProbeAlwaysYields ==
    /\ actPc # "rejected"
    /\ \A t \in Tools :
         checks[t].resolved =>
           IF checks[t].success
           THEN checks[t].version = [null |-> FALSE, text |-> Trim(Concat(checks[t].raw))]
           ELSE checks[t].version = NullVersion

Located(line, column, kind) ==
    [located |-> TRUE, line |-> line, column |-> column, kind |-> kind]

\* C14: for a JS tool error, a message containing
\* `Parse error at <id>:<line>,<column>` yields that line and column as
\* integers, unadjusted; for a CSS tool error, a message containing
\* `line: <int>, column: <int>` yields that pair, with the identifier before
\* `(` as kind when the message has a `kind: <identifier>(` fragment; a
\* message with neither pattern for its tool yields no diagnostic; the text
\* before and after the fragment does not change the result.
C14_ExtractionAsClaimed ==
    LET e == extraction
        f == e.fragment
    IN
    e.done =>
      e.result =
        IF e.tool = "js"
        THEN CASE f = TerserParseError   -> Located(114, 5, <<>>)
               [] f = TerserParseErrorIn -> Located(3, 10, <<>>)
               [] OTHER                  -> NoDiagnostic
        ELSE CASE f = LightningLocation  -> Located(304, 2, <<>>)
               [] f = LightningKindFirst ->
                    Located(304, 2, SubSeq(LightningKindOnly, 7, 21))
               [] f = LightningKindBare  -> Located(7, 12, <<>>)
               [] OTHER                  -> NoDiagnostic

\* C14 witness: the CSS extraction found line 304, column 2 and kind
\* InvalidSelector in a message with text before and after the fragment.
C14_Witness ==
    /\ extraction.done
    /\ extraction.tool = "css"
    /\ extraction.fragment = LightningKindFirst
    /\ extraction.before # <<>> /\ extraction.after # <<>>
    /\ extraction.result.line = 304 /\ extraction.result.column = 2
    /\ Len(extraction.result.kind) = 15

\* C15 (as claimed): when a job fails with tool error text in which the
\* extraction for its family finds a location, the job reports a located
\* diagnostic instead of the raw text and moves the editor's selection to
\* that line and column; when it finds none, the raw error text is shown
\* verbatim and the selection is left unchanged.
C15_LocatedDiagnosticReported ==
    \A j \in Jobs :
      LET r    == job[j]
          text == ExitErrorMsg(r.status, r.stderrOutput)
      IN
      (r.outcome = "ToolFailed" /\ r.status # 0)
      => IF extract(TextChars(text), r.family).located
         THEN r.notes[1].body # text /\ r.selectedRange # "unchanged"
         ELSE r.notes[1].body = text /\ r.selectedRange = "unchanged"

\* What a job that opened its output file left in it.
DataWritten(r) == IF r.written = <<>> THEN <<>> ELSE r.written[1].data

\* C16: saves of the same file start independent jobs that are not
\* serialised: every job of /a.js computes the same output path, and after
\* any number of them have written, the content of the output file is that
\* of the job that opened it last, whichever save that job belongs to.
C16_LastWriterWins ==
    \A j \in Jobs :
      LET r == job[j] IN
      /\ r.family = "js" => r.outputPath = Stem \o MinJs
      /\ (r.writeNo > 0 /\ \A k \in Jobs : job[k].writeNo <= r.writeNo)
           => (r.outputPath \in DOMAIN files /\ files[r.outputPath] = DataWritten(r))

\* C16 witness: stale output.  Of two jobs of /a.js that ran at once, the
\* job of the earlier save wrote last, and the file holds its content, which
\* differs from what the job of the later save wrote.
C16_Witness ==
    \E a, b \in Jobs :
      /\ job[a].outcome = "Success" /\ job[b].outcome = "Success"
      /\ job[a].saveNo < job[b].saveNo
      /\ job[a].writeNo > job[b].writeNo
      /\ DataWritten(job[a]) # DataWritten(job[b])
      /\ files[Stem \o MinJs] = DataWritten(job[a])

Unrecognised(r) == r.syntax # "javascript" /\ ~CssSyntax(r)

\* C17 (as claimed): a save of a document whose syntax is neither javascript
\* nor css, scss or less is silently ignored for every path: no subprocess,
\* no file written, no notification.
C17_UnrecognisedSilent ==
    \A j \in Jobs :
      LET r == job[j] IN
      (Started(r) /\ Unrecognised(r))
      => (NoSubprocess(r) /\ NothingWritten(r) /\ r.notes = <<>>)

\* C17 (amended): a save of a document whose syntax is neither javascript
\* nor css, scss or less gives no subprocess and no file written, and no
\* notification unless the stat query reports the path inaccessible, when
\* the one notification is 'Minification Skipped'.
C17_UnrecognisedSilentUnlessRemote ==
    \A j \in Jobs :
      LET r == job[j] IN
      (Started(r) /\ Unrecognised(r))
      => /\ r.pc = "done"
         /\ NoSubprocess(r) /\ NothingWritten(r)
         /\ r.read = "none" /\ r.sizeStat = NoStat
         /\ IF Inaccessible(r)
            THEN Len(r.notes) = 1 /\ r.notes[1].title = "Minification Skipped"
            ELSE r.notes = <<>>

\* C17 witness: an html document with the local path /a.css was saved while
\* Lightning CSS was installed and enabled, and was ignored.
C17_Witness ==
    \E j \in Jobs :
      /\ job[j].outcome = "ignored"
      /\ job[j].syntax = "html"
      /\ job[j].path = Stem \o CssExt
      /\ job[j].remoteStat = "stats"
      /\ LightningEnabled(job[j].cfg)
      /\ dependencies.lightningcss

RECURSIVE LastDot(_, _)
LastDot(p, i) ==
    IF i = 0 THEN 0
    ELSE IF p[i] = "." THEN i
    ELSE LastDot(p, i - 1)

Extension(p) == SubSeq(p, LastDot(p, Len(p)), Len(p))
Directory(p) == SubSeq(p, 1, LastSlash(p, Len(p)))

\* The output path the claim gives a job: the input path with its extension
\* replaced by the suffix set for the family, or by the default suffix when
\* the setting is unset or empty.
ClaimedOutput(r) ==
    SubSeq(r.path, 1, LastDot(r.path, Len(r.path)) - 1)
        \o (IF r.family = "js"
            THEN (IF r.cfg.terserSuffix = <<>> THEN MinJs ELSE r.cfg.terserSuffix)
            ELSE (IF r.cfg.lightningSuffix = <<>> THEN MinCss ELSE r.cfg.lightningSuffix))

NoFailureNote(r) == \A i \in 1..Len(r.notes) : r.notes[i].id # "minify-error"
FailureNote(r) == Len(r.notes) = 1 /\ r.notes[1].id = "minify-error"

\* C20 (as claimed): each input error is refused before any subprocess is
\* spawned.  An inaccessible file gives no subprocess and is reported as a
\* skip; an output path equal to the input path gives no subprocess and no
\* failure report; empty content, read from the file by minifyJS or seen as
\* size 0 by minifyCSS, gives no subprocess and is reported as a failure.
C20_InputErrorsRefused ==
    \A j \in Jobs :
      LET r == job[j] IN
      /\ (Started(r) /\ Inaccessible(r))
           => /\ ~ChildStarted(r)
              /\ Len(r.notes) = 1 /\ r.notes[1].title = "Minification Skipped"
      /\ (r.family # "none" /\ r.outputPath = r.path)
           => (~ChildStarted(r) /\ NoFailureNote(r))
      /\ (r.family = "js" /\ r.read = "ok" /\ r.content = <<>>)
           => (~ChildStarted(r) /\ FailureNote(r))
      /\ (r.family = "css" /\ r.sizeStat.kind = "stats" /\ r.sizeStat.size = 0)
           => (~ChildStarted(r) /\ FailureNote(r))

\* C21: in stream mode the output file is opened for writing only after the
\* child has exited with status 0 and non-empty accumulated stdout; a
\* non-zero exit, or an exit with status 0 and empty stdout (reported as
\* 'Terser produced no output'), ends the job as a failure, and the output
\* path is neither created nor truncated nor written.
C21_WriteOnlyAfterGoodExit ==
    \A j \in Jobs :
      LET r == job[j] IN
      r.family = "js" =>
        /\ r.pc = "running" => (r.opened = <<>> /\ r.written = <<>>)
        /\ r.opened # <<>> =>
             (r.run = "resolved" /\ r.status = 0 /\ StdoutAtExit(r) # <<>>)
        /\ (r.run \in {"resolved", "rejected"}
              /\ (r.status # 0 \/ StdoutAtExit(r) = <<>>))
           => /\ r.outcome = "ToolFailed"
              /\ FailureNote(r)
              /\ NothingWritten(r)
              /\ r.outputPath \notin DOMAIN files
              /\ (r.status = 0
                    => r.notes[1].body = <<"Terser", " produced no output">>)

\* C21 witness: a Terser child that was started for /a.js exited with status
\* 0 having printed nothing; the job reported 'Terser produced no output'
\* and /a.min.js does not exist.
C21_Witness ==
    \E j \in Jobs :
      /\ job[j].outcome = "ToolFailed"
      /\ job[j].path = Stem \o JsExt
      /\ job[j].status = 0
      /\ job[j].notes = <<JsFailedNote(<<"Terser", " produced no output">>)>>
      /\ (Stem \o MinJs) \notin DOMAIN files

\* The checks of handleSave and of minifyJS/minifyCSS that precede the spawn,
\* as the job's record shows them passed.
PathValidated(r) ==
    /\ r.path # <<>>
    /\ r.remoteStat = "stats"
    /\ IF r.family = "js"
       THEN /\ r.syntax = "javascript"
            /\ TerserEnabled(r.cfg)
            /\ ~EndsWith(r.path, MinJs)
            /\ dependencies.terser
       ELSE /\ r.family = "css" /\ CssSyntax(r)
            /\ LightningEnabled(r.cfg)
            /\ ~EndsWith(r.path, MinCss)
            /\ dependencies.lightningcss
    /\ r.outputPath # r.path

\* The input as the family's mode takes it before the spawn: read and found
\* non-empty in stream mode, measured in file-path mode.
InputRead(r) ==
    IF r.family = "js"
    THEN r.read = "ok" /\ r.content # <<>> /\ r.originalSize = TextLen(r.content)
    ELSE r.read = "none" /\ r.sizeStat.kind = "stats"

ResultNote(n) == n.id \in {"minify-success", "minify-error"}

\* C22: every job goes through its steps in order.  A job for which
\* process.start() was called had passed, in the same save, the remote
\* check, the family's enabled and already-minified checks, the dependency
\* check and the output-path check, and in stream mode had read the input
\* and found it non-empty; while the child runs nothing has been notified or
\* written; after the child's exit the job has ended in one outcome and
\* issued exactly one result notification, a success for the outcome Success
\* and a failure for every other (the catch block, which a tool failure, a
\* write failure and a failed size query after the exit all reach).
C22_StepsInOrder ==
    \A j \in Jobs :
      LET r == job[j] IN
      /\ r.spawns > 0 => (PathValidated(r) /\ InputRead(r) /\ r.spawns = 1)
      /\ r.pc = "running" =>
           /\ ChildStarted(r) /\ r.run = "pending" /\ r.status = -1
           /\ r.notes = <<>> /\ NothingWritten(r) /\ r.outcome = "none"
      /\ (r.pc = "done" /\ ChildStarted(r)) =>
           /\ r.run \in {"resolved", "rejected"}
           /\ r.status \in ExitStatuses
           /\ r.outcome \in {"Success", "ToolFailed", "WriteFailed", "sizeQueryFailed"}
           /\ Len(r.notes) = 1 /\ ResultNote(r.notes[1])
           /\ (r.notes[1].id = "minify-success" <=> r.outcome = "Success")
           /\ r.outcome = "Success" => r.run = "resolved"
           /\ r.outcome = "ToolFailed" <=> r.run = "rejected"

\* C22 witness: a Lightning CSS child is running for /a.less, started after
\* every check passed, and nothing has been notified yet.
C22_Witness ==
    \E j \in Jobs :
      /\ job[j].pc = "running"
      /\ job[j].family = "css"
      /\ job[j].path = Stem \o LessExt
      /\ job[j].spawns = 1
      /\ job[j].sizeStat.kind = "stats"
      /\ job[j].notes = <<>>

\* C23: each save event spawns at most one child process, and every failure
\* is terminal for its job: in every step, no job has called process.start()
\* more than once, a job that has called it does not call it again, and a
\* job that has ended (after a spawn failure, a non-zero exit, empty output
\* or a write failure as after a success) stays ended until its record is
\* dropped; it never returns to running.
C23_OneChildNoRetry ==
    [][\A j \in Jobs :
         /\ job'[j].spawns <= 1
         /\ job[j].spawns = 1 => (job'[j].spawns = 1 \/ job'[j] = IdleJob)
         /\ job[j].pc = "done" =>
              \/ job'[j] = IdleJob
              \/ /\ job'[j].pc = "done"
                 /\ job'[j].outcome = job[j].outcome
                 /\ job'[j].notes = job[j].notes
                 /\ job'[j].run = job[j].run]_vars

\* C23 witness: a job whose Terser child exited with status 1 has failed,
\* having spawned one child.
C23_Witness ==
    \E j \in Jobs :
      /\ job[j].outcome = "ToolFailed"
      /\ job[j].family = "js"
      /\ job[j].status = 1
      /\ job[j].spawns = 1
      /\ job[j].pc = "done"

\* activate awaits a probe.
Probing == actPc \in {"npmCheck", "terserCheck", "lightningCheck"}
\* The promise of activate is settled: fulfilled after the registration or
\* after the npm notification, or rejected by a probe that was not spawned.
ActivationEnded == actPc \in {"registered", "aborted", "rejected"}

\* The job has reported one outcome and ended.
Reported(r) ==
    /\ r.pc = "done"
    /\ r.run \in {"resolved", "rejected"}
    /\ Len(r.notes) = 1 /\ ResultNote(r.notes[1])

\* C24: when every child that was started exits, every job that started a
\* child eventually reports exactly one outcome, one success or one failure
\* notification, and has then ended; and activation, whenever it awaits a
\* probe, eventually ends.
C24_ChildExitGivesReport ==
    /\ \A j \in Jobs : (job[j].pc = "running") ~> Reported(job[j])
    /\ Probing ~> ActivationEnded

\* C24 witness: after an activation that ran all three probes, a job whose
\* Lightning CSS child exited has reported its one outcome and ended.
C24_Witness ==
    \E j \in Jobs :
      /\ Reported(job[j])
      /\ job[j].family = "css"
      /\ actPc = "registered"
      /\ \A t \in Tools : checks[t].resolved

\* The step is one of job j: its record changes and no other job's does.
StepOf(j) == job'[j] # job[j] /\ \A k \in Jobs \ {j} : job'[k] = job[k]

\* The files differ at most at the given path.
SameFilesBut(path) ==
    \A p \in (DOMAIN files \cup DOMAIN files') \ {path} :
      p \in DOMAIN files /\ p \in DOMAIN files' /\ files'[p] = files[p]

\* C25: the dependency flags are written by activation only.  Every step
\* that changes `dependencies` is a step of activate while it awaits a probe
\* and changes no job; every step of a job (handleSave, minifyJS, minifyCSS,
\* runMinifier and their callbacks) leaves the flags, the configuration and
\* every other job's record unchanged and changes no file but the job's own
\* output file.
C25_FlagsWrittenByActivationOnly ==
    [][/\ dependencies' # dependencies => (Probing /\ job' = job /\ files' = files)
       /\ job' # job =>
            /\ dependencies' = dependencies
            /\ config' = config
            /\ actPc' = actPc /\ checks' = checks
            /\ \E j \in Jobs : StepOf(j) /\ SameFilesBut(job'[j].outputPath)]_vars

\* C25 witness: the jobs of /a.js and /a.css ran at once and both succeeded
\* with the flags as activation left them, Terser and Lightning CSS found.
C25_Witness ==
    \E a, b \in Jobs :
      /\ job[a].path = Stem \o JsExt /\ job[b].path = Stem \o CssExt
      /\ job[a].outcome = "Success" /\ job[b].outcome = "Success"
      /\ job[a].saveNo < job[b].saveNo /\ job[a].writeNo > 0
      /\ dependencies = [npm |-> TRUE, terser |-> TRUE, lightningcss |-> TRUE]
      /\ DOMAIN files = {Stem \o MinJs, Stem \o MinCss}

ProbeAlive(t) ==
    /\ \E i \in 1..Len(probed) : probed[i] = t
    /\ ~checks[t].resolved

\* The order of the probes.
ProbeRank(t) ==
    CASE t = "npm" -> 1 [] t = "terser" -> 2 [] t = "lightningcss" -> 3

Enabled(t, cfg) ==
    CASE t = "npm"          -> TRUE
      [] t = "terser"       -> TerserEnabled(cfg)
      [] t = "lightningcss" -> LightningEnabled(cfg)

\* C27: the probes of activation run one after another in the order npm,
\* Terser, Lightning CSS: each tool is probed at most once, a probe is
\* started only when every probe before it has resolved, and at most one
\* probe child is alive; a tool whose family is disabled is not probed and
\* its flag stays false; when the npm probe resolves without success, one
\* notification has been issued, no other probe is started and handleSave is
\* subscribed to no editor.
C27_ProbesInOrder ==
    /\ \A i, k \in 1..Len(probed) : i < k => ProbeRank(probed[i]) < ProbeRank(probed[k])
    /\ \A i \in 1..Len(probed) :
         /\ Enabled(probed[i], config)
         /\ \A k \in 1..(i - 1) : checks[probed[k]].resolved
    /\ Cardinality({t \in Tools : ProbeAlive(t)}) <= 1
    /\ \A t \in Tools :
         /\ checks[t].resolved => \E i \in 1..Len(probed) : probed[i] = t
         /\ ~Enabled(t, config) =>
              (~checks[t].resolved /\ ~ProbeAlive(t) /\ ~dependencies[t])
    /\ (checks["npm"].resolved /\ ~checks["npm"].success) =>
         /\ actPc = "aborted"
         /\ actNotes = <<NpmNotFound>>
         /\ probed = <<"npm">>
         /\ \A e \in EditorIds : editors[e].subs = 0 /\ editors[e].handled = 0
    /\ actPc = "registered" =>
         \A t \in Tools : Enabled(t, config) => checks[t].resolved

\* C27 witness: with both families enabled and an editor open, the npm probe
\* resolved without success; activation stopped there.
C27_Witness ==
    /\ checks["npm"].resolved /\ ~checks["npm"].success
    /\ TerserEnabled(config) /\ LightningEnabled(config)
    /\ installed["terser"]
    /\ editors["e1"].open
    /\ actPc = "aborted"

\* The number of "\n" among the first p characters of a document.
RECURSIVE NewlinesBefore(_, _)
NewlinesBefore(document, p) ==
    IF p = 0 THEN 0
    ELSE NewlinesBefore(document, p - 1) + (IF document[p] = "\n" THEN 1 ELSE 0)

\* The offset p is on 0-based line l at column c: l newlines precede it, the
\* c characters just before it are not newlines, and the line starts there.
OffsetOf(document, l, c, p) ==
    /\ p \in 0..Len(document)
    /\ NewlinesBefore(document, p) = l
    /\ c <= p
    /\ \A i \in (p - c + 1)..p : document[i] # "\n"
    /\ (p - c = 0 \/ document[p - c] = "\n")

\* The document has a position on line l at column c.
InDocument(document, l, c) == \E p \in 0..Len(document) : OffsetOf(document, l, c, p)

\* The sum of (length + 1) over the first n lines of a document: the offset
\* after its n-th newline, or one past its end when it has fewer newlines.
LineStart(document, n) ==
    IF n = 0 THEN 0
    ELSE IF n <= NewlinesBefore(document, Len(document))
    THEN CHOOSE p \in 1..Len(document) :
             document[p] = "\n" /\ NewlinesBefore(document, p) = n
    ELSE Len(document) + 1

\* The offset the claim gives; a document has one line more than newlines.
ClaimedOffset(document, l, c) ==
    LET n == Min(l, NewlinesBefore(document, Len(document)) + 1)
        q == LineStart(document, n) + c
    IN  IF q <= Len(document) THEN q ELSE Len(document)

\* C28: jumpToError(line, column) sets the selection to the offset
\* min(sum over the first min(line, number of lines) lines of (length + 1)
\* + column, document length).  For a 0-based line of the document and a
\* column within that line this is the offset of that position; for every
\* line and column it lies between 0 and the document length.
C28_JumpOffset ==
    jump.done =>
      LET d == jump.document
          p == jump.selectedRange
      IN
      /\ 0 <= p /\ p <= Len(d)
      /\ InDocument(d, jump.line, jump.column) => OffsetOf(d, jump.line, jump.column, p)
      /\ p = ClaimedOffset(d, jump.line, jump.column)

\* C28 witness: in the document a, newline, a, a the jump to line 1, column
\* 2 set the selection to offset 4, and the position is in the document.
C28_Witness ==
    /\ jump.done
    /\ jump.document = <<"a", "\n", "a", "a">>
    /\ jump.line = 1 /\ jump.column = 2
    /\ jump.selectedRange = 4
    /\ InDocument(jump.document, 1, 2)

\* The dependency flag a job consulted.
FlagOf(r) == IF r.syntax = "javascript" THEN "terser" ELSE "lightningcss"

\* C29: no job consults a dependency flag while activation is still probing.
\* Until activate has registered the listeners, after its last probe has
\* resolved, handleSave is subscribed to no editor and has run for no save,
\* however often the documents were saved, and no job exists; whenever a job
\* exists no probe is alive, so a flag the job found false is false because
\* the tool's probe resolved without success or was never started.
C29_NoSaveBeforeProbesEnd ==
    /\ actPc # "registered" =>
         /\ \A e \in EditorIds : editors[e].subs = 0 /\ editors[e].handled = 0
         /\ \A j \in Jobs : job[j] = IdleJob
    /\ \A j \in Jobs :
         LET r == job[j] IN
         Started(r) =>
           /\ actPc = "registered"
           /\ \A t \in Tools : ~ProbeAlive(t)
           /\ r.outcome = "toolMissing" =>
                \/ checks[FlagOf(r)].resolved /\ ~checks[FlagOf(r)].success
                \/ \A i \in 1..Len(probed) : probed[i] # FlagOf(r)

\* C29 witness: the document of an open editor was saved while activate
\* awaited the Terser probe, and handleSave did not run.
C29_Witness ==
    /\ actPc = "terserCheck"
    /\ editors["e1"].open
    /\ editors["e1"].early = 1
    /\ editors["e1"].handled = 0
    /\ \A j \in Jobs : job[j] = IdleJob

\* The saved document's path carries none of the extensions its family's
\* replacement looks for.
UnmatchedExtension(r) ==
    \/ r.syntax = "javascript" /\ ~EndsWith(r.path, JsExt)
    \/ /\ CssSyntax(r)
       /\ ~EndsWith(r.path, CssExt) /\ ~EndsWith(r.path, ScssExt)
       /\ ~EndsWith(r.path, LessExt)

\* The family of the saved document is enabled in the job's configuration.
FamilyEnabled(r) ==
    IF r.syntax = "javascript" THEN TerserEnabled(r.cfg) ELSE LightningEnabled(r.cfg)

\* C30 (as claimed): a document classified as javascript whose path does not
\* end in .js, or as css, scss or less whose path ends in none of .css,
\* .scss, .less, is never minified: the output path equals the input path,
\* and the job ends with no subprocess, no file written and no notification,
\* for every configured suffix.
C30_UnmatchedExtensionSilent ==
    \A j \in Jobs :
      LET r == job[j] IN
      (Started(r) /\ UnmatchedExtension(r))
      => /\ NoSubprocess(r) /\ NothingWritten(r)
         /\ r.family # "none" => r.outputPath = r.path
         /\ r.notes = <<>>

\* C30 (amended): such a document is never minified, for every configured
\* suffix: the job ends with no subprocess, nothing read and no file
\* written, and where it computes an output path that path equals the input
\* path.  It issues no notification, except that an inaccessible path gives
\* the one notification 'Minification Skipped' and, for an accessible path
\* of an enabled family whose dependency flag is false, the one
\* notification that the tool is not installed.
C30_UnmatchedExtensionNotMinified ==
    \A j \in Jobs :
      LET r == job[j] IN
      (Started(r) /\ UnmatchedExtension(r))
      => /\ r.pc = "done"
         /\ NoSubprocess(r) /\ NothingWritten(r)
         /\ r.read = "none" /\ r.sizeStat = NoStat
         /\ r.family # "none" => (r.outputPath = r.path /\ r.outcome = "samePath")
         /\ IF Inaccessible(r)
            THEN r.notes = <<RemoteNote(r.path)>>
            ELSE IF r.path # <<>> /\ FamilyEnabled(r) /\ ~dependencies[FlagOf(r)]
            THEN r.notes = <<IF r.syntax = "javascript"
                             THEN TerserNotInstalled ELSE LightningNotInstalled>>
            ELSE r.notes = <<>>

\* C30 witness: a javascript document with the local path /a.txt was saved
\* with Terser found and enabled and the suffix set to -m.js; minifyJS
\* computed /a.txt as output path and returned.
C30_Witness ==
    \E j \in Jobs :
      /\ job[j].outcome = "samePath"
      /\ job[j].syntax = "javascript"
      /\ job[j].path = Stem \o <<".", "t", "x", "t">>
      /\ job[j].cfg.terserSuffix = CustomJs
      /\ job[j].outputPath = job[j].path
      /\ job[j].notes = <<>>

\* The return points of a save that call showNotification, and those that
\* do not.
NotifyingOutcomes ==
    {"remote", "toolMissing", "readFailed", "emptyInput", "spawnFailed",
     "sizeQueryFailed", "ToolFailed", "WriteFailed", "Success"}
SilentOutcomes == {"noPath", "disabled", "alreadyMinified", "samePath", "ignored"}

\* C31: every save event results in at most one user notification, over all
\* paths through handleSave, minifyJS, minifyCSS and runMinifier: a job that
\* is awaiting its child has issued none, a job that ended at a skip, a
\* missing tool, a success, a tool failure or a write failure has issued
\* exactly one, every other ended job none; a save of a document with no
\* file path results in none and starts nothing.
C31_AtMostOneNotification ==
    \A j \in Jobs :
      LET r == job[j] IN
      /\ Len(r.notes) <= 1
      /\ r.pc \in {"idle", "running"} => r.notes = <<>>
      /\ r.pc = "done" =>
           /\ r.outcome \in NotifyingOutcomes \cup SilentOutcomes
           /\ r.outcome \in NotifyingOutcomes => Len(r.notes) = 1
           /\ r.outcome \in SilentOutcomes => r.notes = <<>>
      /\ (Started(r) /\ r.path = <<>>) =>
           (r.outcome = "noPath" /\ r.notes = <<>> /\ NoSubprocess(r)
              /\ NothingWritten(r))

\* C31 witness: a job whose Terser run succeeded failed to write its output
\* after opening it, and has issued the one failure notification.
C31_Witness ==
    \E j \in Jobs :
      /\ job[j].outcome = "WriteFailed"
      /\ job[j].run = "resolved"
      /\ job[j].opened # <<>>
      /\ job[j].notes = <<JsFailedNote(HostError("write"))>>

====
